---------------------------- MODULE Spec2Model ----------------------------
(***************************************************************************)
(* A model of the skyr URL parser: the driver loop of details::basic_parse *)
(* (src/src/url_parse.cpp) and the state handlers of url_parser_context    *)
(* (src/src/url_parser_context.cpp).                                       *)
(*                                                                         *)
(* Bytes are integers 0..255.  A string is a sequence of bytes.  An        *)
(* optional value is a sequence of length 0 (absent) or 1 (present).       *)
(* The input position `it` is 1-based: begin(view) is 1 and end(view) is   *)
(* Len(input)+1.                                                           *)
(***************************************************************************)
EXTENDS Integers, Sequences, FiniteSets, TLC

\* ------------------------------------------------------------------------
\* Bytes
\* ------------------------------------------------------------------------

\* The printable ASCII characters 0x20..0x7E in order (0x60 is spelled out).
Printable ==
  << " ", "!", "\"", "#", "$", "%", "&", "'", "(", ")", "*", "+", ",", "-", ".", "/",
     "0", "1", "2", "3", "4", "5", "6", "7", "8", "9", ":", ";", "<", "=", ">", "?",
     "@", "A", "B", "C", "D", "E", "F", "G", "H", "I", "J", "K", "L", "M", "N", "O",
     "P", "Q", "R", "S", "T", "U", "V", "W", "X", "Y", "Z", "[", "\\", "]", "^", "_",
     "backquote", "a", "b", "c", "d", "e", "f", "g", "h", "i", "j", "k", "l", "m", "n", "o",
     "p", "q", "r", "s", "t", "u", "v", "w", "x", "y", "z", "{", "|", "}", "~" >>

\* The byte value of a printable character.
Ord ==
  [ch \in {Printable[i] : i \in 1..Len(Printable)} |->
     31 + (CHOOSE i \in 1..Len(Printable) : Printable[i] = ch)]

\* A string literal written as a tuple of characters, as bytes.
S(chars) == [i \in 1..Len(chars) |-> Ord[chars[i]]]

\* The set of bytes of a tuple of characters.
Chars(chars) == {Ord[chars[i]] : i \in 1..Len(chars)}

NUL == 0
HT == 9
LF == 10
VT == 11
FF == 12
CR == 13

cSpace == Ord[" "]
cHash == Ord["#"]
cPercent == Ord["%"]
cPlus == Ord["+"]
cMinus == Ord["-"]
cDot == Ord["."]
cSlash == Ord["/"]
cColon == Ord[":"]
cQuestion == Ord["?"]
cAt == Ord["@"]
cLBracket == Ord["["]
cBackslash == Ord["\\"]
cRBracket == Ord["]"]
cPipe == Ord["|"]
cZero == Ord["0"]
cLowerA == Ord["a"]
cLowerX == Ord["x"]
cUpperA == Ord["A"]

\* std::isalpha / isdigit / isalnum / isxdigit / isspace / tolower in the
\* "C" locale.
isupper(c) == c \in 65..90
islower(c) == c \in 97..122
isalpha(c) == isupper(c) \/ islower(c)
isdigit(c) == c \in 48..57
isalnum(c) == isalpha(c) \/ isdigit(c)
isxdigit(c) == isdigit(c) \/ c \in 65..70 \/ c \in 97..102
isspace(c) == c \in {cSpace, HT, LF, VT, FF, CR}
tolower(c) == IF isupper(c) THEN c + 32 ELSE c

ToLowerStr(s) == [i \in 1..Len(s) |-> tolower(s[i])]

is_in(c, view) == c \in view

\* hex_to_dec: the value of a hexadecimal digit.
hex_to_dec(c) ==
  LET c_lower == tolower(c)
  IN  IF isdigit(c_lower) THEN c_lower - cZero ELSE (c_lower - cLowerA) + 10

\* Optional values.
None == << >>
Some(v) == << v >>
Has(o) == o # << >>
Val(o) == o[1]

\* ------------------------------------------------------------------------
\* Percent codec (skyr/url/details/encode.hpp, decode.hpp)
\* ------------------------------------------------------------------------

HexDigit(n) == IF n < 10 THEN cZero + n ELSE cUpperA + (n - 10)

\* pct_encode_char(in, out, includes): bytes outside 0x20..0x7E and bytes
\* of `includes` become %XX with uppercase hex digits.
pct_encode_char(c, includes) ==
  IF c < 32 \/ c > 126 \/ c \in includes
    THEN << cPercent, HexDigit(c \div 16), HexDigit(c % 16) >>
    ELSE << c >>

RECURSIVE pct_decode(_)
\* pct_decode: %XY with two hex digits is one byte; any other '%' is kept.
pct_decode(s) ==
  IF s = << >> THEN << >>
  ELSE IF s[1] = cPercent /\ Len(s) >= 3 /\ isxdigit(s[2]) /\ isxdigit(s[3])
    THEN << hex_to_dec(s[2]) * 16 + hex_to_dec(s[3]) >>
           \o pct_decode(SubSeq(s, 4, Len(s)))
    ELSE << s[1] >> \o pct_decode(Tail(s))

\* ------------------------------------------------------------------------
\* Scheme registry (url_schemes.hpp)
\* ------------------------------------------------------------------------

FtpScheme == S(<<"f","t","p">>)
FileScheme == S(<<"f","i","l","e">>)
HttpScheme == S(<<"h","t","t","p">>)
HttpsScheme == S(<<"h","t","t","p","s">>)
WsScheme == S(<<"w","s">>)
WssScheme == S(<<"w","s","s">>)

SpecialSchemes ==
  {FtpScheme, FileScheme, HttpScheme, HttpsScheme, WsScheme, WssScheme}

is_special(scheme) == scheme \in SpecialSchemes

\* default_port: the optional default port of a scheme.
default_port(scheme) ==
  IF scheme = FtpScheme THEN Some(21)
  ELSE IF scheme = HttpScheme \/ scheme = WsScheme THEN Some(80)
  ELSE IF scheme = HttpsScheme \/ scheme = WssScheme THEN Some(443)
  ELSE None

is_default_port(scheme, port) == default_port(scheme) = Some(port)

\* ------------------------------------------------------------------------
\* Unsigned integers wider than the checker's: little-endian base-256
\* digits without a most-significant zero (zero is the empty sequence)
\* ------------------------------------------------------------------------

RECURSIVE MulAdd(_, _, _)
\* n * r + carry
MulAdd(n, r, carry) ==
  IF n = << >>
    THEN IF carry = 0 THEN << >>
         ELSE << carry % 256 >> \o MulAdd(<< >>, r, carry \div 256)
    ELSE LET v == n[1] * r + carry
         IN  << v % 256 >> \o MulAdd(Tail(n), r, v \div 256)

RECURSIVE StripZeros(_)
StripZeros(n) ==
  IF n # << >> /\ n[Len(n)] = 0 THEN StripZeros(SubSeq(n, 1, Len(n) - 1)) ELSE n

\* Width of unsigned long in bytes.
ULongBytes == 8

\* 2^64 - n for 0 < n < 2^64 (unsigned negation).
NegateULong(n) ==
  LET padded == [i \in 1..ULongBytes |-> IF i <= Len(n) THEN n[i] ELSE 0]
      flipped == [i \in 1..ULongBytes |-> 255 - padded[i]]
      plus1 == MulAdd(flipped, 1, 1)
  IN  StripZeros(SubSeq(plus1, 1, ULongBytes))

\* The decimal digits of a small number.
RECURSIVE Decimal(_)
Decimal(n) ==
  IF n < 10 THEN << cZero + n >> ELSE Decimal(n \div 10) \o << cZero + (n % 10) >>

\* ------------------------------------------------------------------------
\* IPv4 (parse_ipv4_number, parse_ipv4_address)
\* ------------------------------------------------------------------------

IsDigitOf(c, R) == isxdigit(c) /\ hex_to_dec(c) < R

RECURSIVE SkipSpace(_)
SkipSpace(s) == IF s # << >> /\ isspace(s[1]) THEN SkipSpace(Tail(s)) ELSE s

RECURSIVE Digits(_, _, _)
\* The value of the longest prefix of s made of digits of radix R, on top
\* of the value acc.
Digits(s, R, acc) ==
  IF s # << >> /\ IsDigitOf(s[1], R)
    THEN Digits(Tail(s), R, MulAdd(acc, R, hex_to_dec(s[1])))
    ELSE acc

\* std::stoul(str, nullptr, R): leading white space, an optional sign, for
\* radix 16 an optional 0x, then the longest run of digits; None stands for
\* the exception (no digit at all, or a value of 2^64 or more).
stoul(str, R) ==
  LET Convert(magnitude, negative) ==
        IF Len(magnitude) > ULongBytes THEN None
        ELSE IF negative /\ magnitude # << >> THEN Some(NegateULong(magnitude))
        ELSE Some(magnitude)
      Number(s3, negative) ==
        IF s3 = << >> \/ ~IsDigitOf(s3[1], R) THEN None
        ELSE Convert(Digits(s3, R, << >>), negative)
      Unsigned(s2, negative) ==
        Number(IF R = 16 /\ Len(s2) >= 3 /\ s2[1] = cZero
                    /\ tolower(s2[2]) = cLowerX /\ isxdigit(s2[3])
                 THEN SubSeq(s2, 3, Len(s2)) ELSE s2,
               negative)
      Signed(s1) ==
        Unsigned(IF s1 # << >> /\ s1[1] \in {cPlus, cMinus} THEN Tail(s1) ELSE s1,
                 s1 # << >> /\ s1[1] = cMinus)
  IN  Signed(SkipSpace(str))

parse_ipv4_number(input) ==
  LET hex == Len(input) >= 2 /\ input[1] = cZero /\ tolower(input[2]) = cLowerX
      oct == ~hex /\ Len(input) >= 2 /\ input[1] = cZero
      R == IF hex THEN 16 ELSE IF oct THEN 8 ELSE 10
      rest == IF hex THEN SubSeq(input, 3, Len(input))
              ELSE IF oct THEN Tail(input) ELSE input
  IN  IF rest = << >> THEN Some(<< >>) ELSE stoul(rest, R)

RECURSIVE SplitDots(_, _)
\* The parts of the input between '.' bytes; `parts` is never empty.
SplitDots(input, parts) ==
  IF input = << >> THEN parts
  ELSE IF input[1] = cDot THEN SplitDots(Tail(input), Append(parts, << >>))
  ELSE SplitDots(Tail(input),
                 [parts EXCEPT ![Len(parts)] = Append(@, input[1])])

\* ipv4_address(ipv4).to_string(): four dotted decimals, most significant
\* byte first; the argument is below 2^32.
ipv4_to_string(n) ==
  LET byte(i) == IF i <= Len(n) THEN n[i] ELSE 0
  IN  Decimal(byte(4)) \o << cDot >> \o Decimal(byte(3)) \o << cDot >>
        \o Decimal(byte(2)) \o << cDot >> \o Decimal(byte(1))

RECURSIVE AddULong(_, _, _)
\* a + b + carry in unsigned long arithmetic.
AddULong(a, b, carry) ==
  IF a = << >> /\ b = << >>
    THEN IF carry = 0 THEN << >> ELSE << carry >>
    ELSE LET v == (IF a = << >> THEN 0 ELSE a[1])
                    + (IF b = << >> THEN 0 ELSE b[1]) + carry
         IN  << v % 256 >>
               \o AddULong(IF a = << >> THEN a ELSE Tail(a),
                           IF b = << >> THEN b ELSE Tail(b), v \div 256)

\* The numbers of the parts of the input, or None when the input is not a
\* numeric address: more than four parts, an empty part, or a part that
\* is not a number.
Ipv4Numbers(input) ==
  LET Numbers(parts, numbers) ==
        IF Len(parts) > 4 THEN None
        ELSE IF \E i \in 1..Len(parts) : parts[i] = << >> \/ ~Has(numbers[i])
          THEN None
        ELSE Some([i \in 1..Len(parts) |-> Val(numbers[i])])
      Parse(parts) ==
        Numbers(parts, [i \in 1..Len(parts) |-> parse_ipv4_number(parts[i])])
      Parts(split) ==
        Parse(IF split[Len(split)] = << >> /\ Len(split) > 1
                THEN SubSeq(split, 1, Len(split) - 1) ELSE split)
  IN  Parts(SplitDots(input, << << >> >>))

\* A number before the last is greater than 255.
Ipv4PartTooLarge(numbers) ==
  \E i \in 1..(Len(numbers) - 1) : Len(numbers[i]) > 1

\* A variant that lets any last number through.
Ipv4LastTooLarge_never(numbers) == FALSE

\* The last number is 256^(5 - numbers.size()) or more.
Ipv4LastTooLarge(numbers) == Len(numbers[Len(numbers)]) > 5 - Len(numbers)

RECURSIVE Ipv4Sum(_, _, _)
\* The loop that adds number * 256^(3 - counter) for the numbers before
\* the last; `counter` counts from 1 here.
Ipv4Sum(numbers, counter, ipv4) ==
  IF counter > Len(numbers) - 1 THEN ipv4
  ELSE Ipv4Sum(numbers, counter + 1,
               AddULong(ipv4,
                        [i \in 1..(4 - counter) |-> 0] \o numbers[counter], 0))

\* A variant that keeps the last number only.
Ipv4Fold_last_only(numbers) == numbers[Len(numbers)]

\* The 32-bit value of the address.
Ipv4Fold(numbers) == StripZeros(Ipv4Sum(numbers, 1, numbers[Len(numbers)]))

\* parse_ipv4_address: None is a failure, otherwise the host string: the
\* dotted address, or the input itself when it is not a number.
parse_ipv4_address(input) ==
  LET Address(numbers) ==
        IF ~Has(numbers) THEN Some(input)
        ELSE IF Ipv4PartTooLarge(Val(numbers)) THEN None
        ELSE IF Ipv4LastTooLarge(Val(numbers)) THEN None
        ELSE Some(ipv4_to_string(Ipv4Fold(Val(numbers))))
  IN  Address(Ipv4Numbers(input))

\* ------------------------------------------------------------------------
\* IPv6 (parse_ipv6_address, ipv6_address::to_string)
\* ------------------------------------------------------------------------

\* The byte *it of parse_ipv6_address.  The view is the text between the
\* brackets of the host buffer, so the byte at `last` is the closing ']'.
Ipv6At(input, it) == IF it <= Len(input) THEN input[it] ELSE cRBracket

RECURSIVE Ipv6Hex(_, _, _, _)
\* The inner loop that reads at most four hex digits: [value, length, it].
Ipv6Hex(input, it, value, length) ==
  IF length < 4 /\ isxdigit(Ipv6At(input, it))
    THEN Ipv6Hex(input, it + 1, value * 16 + hex_to_dec(Ipv6At(input, it)), length + 1)
    ELSE [value |-> value, length |-> length, it |-> it]

RECURSIVE Ipv6Ipv4Piece_leading_zero(_, _, _)
\* A variant that lets digits follow a leading zero.
Ipv6Ipv4Piece_leading_zero(input, it, piece) ==
  IF isdigit(Ipv6At(input, it))
    THEN LET number == Ipv6At(input, it) - cZero
         IN  IF ~Has(piece)
               THEN Ipv6Ipv4Piece_leading_zero(input, it + 1, Some(number))
             ELSE IF Val(piece) * 10 + number > 255
               THEN [ok |-> FALSE, piece |-> piece, it |-> it]
             ELSE Ipv6Ipv4Piece_leading_zero(input, it + 1,
                                             Some(Val(piece) * 10 + number))
    ELSE [ok |-> TRUE, piece |-> piece, it |-> it]

RECURSIVE Ipv6Ipv4Piece(_, _, _)
\* The loop over the digits of one embedded IPv4 number:
\* [ok, piece, it]; piece is the optional ipv4_piece.
Ipv6Ipv4Piece(input, it, piece) ==
  IF isdigit(Ipv6At(input, it))
    THEN LET number == Ipv6At(input, it) - cZero
         IN  IF ~Has(piece)
               THEN Ipv6Ipv4Piece(input, it + 1, Some(number))
             ELSE IF Val(piece) = 0
               THEN [ok |-> FALSE, piece |-> piece, it |-> it]
             ELSE IF Val(piece) * 10 + number > 255
               THEN [ok |-> FALSE, piece |-> piece, it |-> it]
             ELSE Ipv6Ipv4Piece(input, it + 1, Some(Val(piece) * 10 + number))
    ELSE [ok |-> TRUE, piece |-> piece, it |-> it]

RECURSIVE Ipv6Ipv4(_, _)
\* The loop over the embedded IPv4 numbers; st.pc is "run", "fail" or
\* "done" (the loop ran to the end of the input).  st.indices collects
\* every i of an address[i] that is read or written.
Ipv6Ipv4(input, st) ==
  IF st.it = Len(input) + 1 THEN [st EXCEPT !.pc = "done"]
  ELSE IF st.numbers_seen > 0
          /\ ~(Ipv6At(input, st.it) = cDot /\ st.numbers_seen < 4)
    THEN [st EXCEPT !.pc = "fail"]
  ELSE LET it1 == IF st.numbers_seen > 0 THEN st.it + 1 ELSE st.it
       IN  IF ~isdigit(Ipv6At(input, it1)) THEN [st EXCEPT !.pc = "fail"]
           ELSE LET r == Ipv6Ipv4Piece(input, it1, None)
                IN  IF ~r.ok THEN [st EXCEPT !.pc = "fail"]
                    ELSE Ipv6Ipv4(input,
                           [st EXCEPT
                              !.it = r.it,
                              !.address[st.piece_index] =
                                  (@ * 256 + Val(r.piece)) % 65536,
                              !.indices = @ \cup {st.piece_index},
                              !.numbers_seen = @ + 1,
                              !.piece_index =
                                  IF st.numbers_seen + 1 \in {2, 4} THEN @ + 1 ELSE @])

\* A variant that goes on after the eighth piece.
Ipv6Iteration_nine_pieces(input, st) ==
  IF Ipv6At(input, st.it) = cColon
    THEN IF Has(st.compress) THEN [st EXCEPT !.pc = "fail"]
         ELSE [st EXCEPT !.it = @ + 1, !.piece_index = @ + 1,
                         !.compress = Some(st.piece_index + 1)]
  ELSE LET h == Ipv6Hex(input, st.it, 0, 0)
       IN  IF Ipv6At(input, h.it) = cDot
             THEN IF h.length = 0 THEN [st EXCEPT !.pc = "fail"]
                  ELSE IF st.piece_index > 6 THEN [st EXCEPT !.pc = "fail"]
                  ELSE LET r == Ipv6Ipv4(input,
                                  [st EXCEPT !.it = h.it - h.length,
                                             !.numbers_seen = 0])
                       IN  IF r.pc = "fail" THEN r
                           ELSE IF r.numbers_seen # 4 THEN [r EXCEPT !.pc = "fail"]
                           ELSE [r EXCEPT !.pc = "break"]
           ELSE IF Ipv6At(input, h.it) = cColon /\ h.it + 1 = Len(input) + 1
             THEN [st EXCEPT !.pc = "fail"]
           ELSE IF Ipv6At(input, h.it) # cColon /\ h.it # Len(input) + 1
             THEN [st EXCEPT !.pc = "fail"]
           ELSE [st EXCEPT
                   !.it = IF Ipv6At(input, h.it) = cColon THEN h.it + 1 ELSE h.it,
                   !.address[st.piece_index] = h.value,
                   !.indices = @ \cup {st.piece_index},
                   !.piece_index = @ + 1]

\* One iteration of the main loop of parse_ipv6_address, entered with
\* it # last.  st.pc becomes "fail", "break" (the embedded IPv4 ended the
\* loop) or stays "run".
Ipv6Iteration(input, st) ==
  IF st.piece_index = 8 THEN [st EXCEPT !.pc = "fail"]
  ELSE IF Ipv6At(input, st.it) = cColon
    THEN IF Has(st.compress) THEN [st EXCEPT !.pc = "fail"]
         ELSE [st EXCEPT !.it = @ + 1, !.piece_index = @ + 1,
                         !.compress = Some(st.piece_index + 1)]
  ELSE LET h == Ipv6Hex(input, st.it, 0, 0)
       IN  IF Ipv6At(input, h.it) = cDot
             THEN IF h.length = 0 THEN [st EXCEPT !.pc = "fail"]
                  ELSE IF st.piece_index > 6 THEN [st EXCEPT !.pc = "fail"]
                  ELSE LET r == Ipv6Ipv4(input,
                                  [st EXCEPT !.it = h.it - h.length,
                                             !.numbers_seen = 0])
                       IN  IF r.pc = "fail" THEN r
                           ELSE IF r.numbers_seen # 4 THEN [r EXCEPT !.pc = "fail"]
                           ELSE [r EXCEPT !.pc = "break"]
           ELSE IF Ipv6At(input, h.it) = cColon /\ h.it + 1 = Len(input) + 1
             THEN [st EXCEPT !.pc = "fail"]
           ELSE IF Ipv6At(input, h.it) # cColon /\ h.it # Len(input) + 1
             THEN [st EXCEPT !.pc = "fail"]
           ELSE [st EXCEPT
                   !.it = IF Ipv6At(input, h.it) = cColon THEN h.it + 1 ELSE h.it,
                   !.address[st.piece_index] = h.value,
                   !.indices = @ \cup {st.piece_index},
                   !.piece_index = @ + 1]

RECURSIVE Ipv6Loop(_, _)
Ipv6Loop(input, st) ==
  IF st.pc # "run" \/ st.it = Len(input) + 1 THEN st
  ELSE Ipv6Loop(input, Ipv6Iteration(input, st))

\* A variant that leaves the pieces where the loop has written them.
Ipv6Swap_none(address, piece_index, swaps, compress) == address

RECURSIVE Ipv6SwapIndices(_, _, _)
\* Every i of an address[i] the loop below hands to std::swap.
Ipv6SwapIndices(piece_index, swaps, compress) ==
  IF piece_index # 0 /\ swaps > 0
    THEN {piece_index, compress + swaps - 1}
           \cup Ipv6SwapIndices(piece_index - 1, swaps - 1, compress)
    ELSE {}

RECURSIVE Ipv6Swap(_, _, _, _)
\* The loop that moves the pieces after the compression to the end.
Ipv6Swap(address, piece_index, swaps, compress) ==
  IF piece_index # 0 /\ swaps > 0
    THEN LET j == compress + swaps - 1
         IN  Ipv6Swap([address EXCEPT ![piece_index] = address[j],
                                      ![j] = address[piece_index]],
                      piece_index - 1, swaps - 1, compress)
    ELSE address

\* A variant that returns the address of fewer than eight pieces.
parse_ipv6_address_allows_short(input) ==
  LET st0 == [address |-> [i \in 0..7 |-> 0], piece_index |-> 0,
              compress |-> None, it |-> 1, numbers_seen |-> 0, pc |-> "run",
              indices |-> {}]
      st1 == IF Ipv6At(input, 1) = cColon
               THEN IF Ipv6At(input, 2) # cColon THEN [st0 EXCEPT !.pc = "fail"]
                    ELSE [st0 EXCEPT !.it = 3, !.piece_index = 1,
                                     !.compress = Some(1)]
               ELSE st0
      st2 == Ipv6Loop(input, st1)
  IN  IF st2.pc = "fail" THEN None
      ELSE IF Has(st2.compress)
        THEN Some(Ipv6Swap(st2.address, 7,
                           st2.piece_index - Val(st2.compress), Val(st2.compress)))
      ELSE Some(st2.address)

\* parse_ipv6_address: the optional address, a function from 0..7 to the
\* 16-bit pieces.
\* A variant that records a leading '::' at index 0.
Ipv6Start_index_zero(input) ==
  LET st0 == [address |-> [i \in 0..7 |-> 0], piece_index |-> 0,
              compress |-> None, it |-> 1, numbers_seen |-> 0, pc |-> "run",
              indices |-> {}]
  IN  IF Ipv6At(input, 1) = cColon
        THEN IF Ipv6At(input, 2) # cColon THEN [st0 EXCEPT !.pc = "fail"]
             ELSE [st0 EXCEPT !.it = 3, !.compress = Some(0)]
        ELSE st0

\* The locals of parse_ipv6_address when its main loop is reached: a
\* leading ':' has to be followed by ':', and both are consumed.
Ipv6Start(input) ==
  LET st0 == [address |-> [i \in 0..7 |-> 0], piece_index |-> 0,
              compress |-> None, it |-> 1, numbers_seen |-> 0, pc |-> "run",
              indices |-> {}]
  IN  IF Ipv6At(input, 1) = cColon
        THEN IF Ipv6At(input, 2) # cColon THEN [st0 EXCEPT !.pc = "fail"]
             ELSE [st0 EXCEPT !.it = 3, !.piece_index = 1,
                              !.compress = Some(1)]
        ELSE st0

parse_ipv6_address(input) ==
  LET Finish(st2) ==
        IF st2.pc = "fail" THEN None
        ELSE IF Has(st2.compress)
          THEN Some(Ipv6Swap(st2.address, 7,
                             st2.piece_index - Val(st2.compress), Val(st2.compress)))
        ELSE IF st2.piece_index # 8 THEN None
        ELSE Some(st2.address)
  IN  Finish(Ipv6Loop(input, Ipv6Start(input)))

RECURSIVE Hex(_)
\* A 16-bit piece in lowercase hex without leading zeros.
Hex(n) ==
  LET d == n % 16
      ch == IF d < 10 THEN cZero + d ELSE cLowerA + (d - 10)
  IN  IF n < 16 THEN << ch >> ELSE Hex(n \div 16) \o << ch >>

\* The length of the run of zero pieces that starts at piece i.
RECURSIVE ZeroRun(_, _)
ZeroRun(address, i) ==
  IF i <= 7 /\ address[i] = 0 THEN 1 + ZeroRun(address, i + 1) ELSE 0

RECURSIVE Ipv6Pieces(_, _, _, _)
Ipv6Pieces(address, i, from, len) ==
  IF i > 7 THEN << >>
  ELSE IF len >= 2 /\ i = from
    THEN (IF i = 0 THEN << cColon, cColon >> ELSE << cColon >>)
           \o Ipv6Pieces(address, i + len, from, len)
  ELSE Hex(address[i]) \o (IF i < 7 THEN << cColon >> ELSE << >>)
           \o Ipv6Pieces(address, i + 1, from, len)

\* ipv6_address::to_string(): the bracketed text, with the leftmost longest
\* run of two or more zero pieces written as "::".
ipv6_to_string(address) ==
  LET longest == CHOOSE l \in 0..8 :
                   /\ \E i \in 0..7 : ZeroRun(address, i) = l
                   /\ \A i \in 0..7 : ZeroRun(address, i) <= l
      from == IF longest = 0 THEN 0
              ELSE CHOOSE i \in 0..7 :
                     /\ ZeroRun(address, i) = longest
                     /\ \A j \in 0..(i - 1) : ZeroRun(address, j) < longest
  IN  << cLBracket >> \o Ipv6Pieces(address, 0, from, longest) \o << cRBracket >>

\* ------------------------------------------------------------------------
\* Hosts (parse_opaque_host, parse_host)
\* ------------------------------------------------------------------------

OpaqueForbidden ==
  {NUL, HT, LF, CR} \cup Chars(<<" ", "#", "/", ":", "?", "@", "[", "\\", "]">>)

ForbiddenHostPoints ==
  {NUL, HT, LF, CR}
    \cup Chars(<<" ", "#", "%", "/", ":", "?", "@", "[", "\\", "]">>)

\* A variant that lets '/' through.
is_forbidden_host_point_without_slash(c) == c \in ForbiddenHostPoints \ {cSlash}

is_forbidden_host_point(c) == c \in ForbiddenHostPoints

RECURSIVE PctEncodeStr(_, _)
PctEncodeStr(s, includes) ==
  IF s = << >> THEN << >>
  ELSE pct_encode_char(s[1], includes) \o PctEncodeStr(Tail(s), includes)

parse_opaque_host(input) ==
  IF \E i \in 1..Len(input) : input[i] \in OpaqueForbidden THEN None
  ELSE Some(PctEncodeStr(input, {}))

domain_to_ascii(domain) == ToLowerStr(domain)

\* parse_host: the optional host string.  front() of an empty view reads
\* the terminating NUL of the buffer.
parse_host(input, is_not_special) ==
  LET front == IF input = << >> THEN NUL ELSE input[1]
      Ipv6(address) ==
        IF Has(address) THEN Some(ipv6_to_string(Val(address))) ELSE None
      Domain(ascii_domain) ==
        IF \E i \in 1..Len(ascii_domain) : is_forbidden_host_point(ascii_domain[i])
          THEN None
          ELSE parse_ipv4_address(ascii_domain)
  IN  IF front = cLBracket
        THEN IF input[Len(input)] # cRBracket THEN None
             ELSE Ipv6(parse_ipv6_address(SubSeq(input, 2, Len(input) - 1)))
      ELSE IF is_not_special THEN parse_opaque_host(input)
      ELSE Domain(domain_to_ascii(pct_decode(input)))

\* is_valid_port: strtoul reads the whole (all-digit, non-empty) buffer
\* and the value is below the largest 16-bit number.
MaxUInt16 == 65535

is_valid_port(port) ==
  LET value == Digits(port, 10, << >>)
  IN  /\ port # << >>
      /\ \A i \in 1..Len(port) : isdigit(port[i])
      /\ Len(value) <= 2
      /\ (IF value = << >> THEN 0
          ELSE IF Len(value) = 1 THEN value[1]
          ELSE value[1] + 256 * value[2]) < MaxUInt16

\* std::atoi of a buffer that is_valid_port accepted.
atoi(buffer) ==
  LET value == Digits(buffer, 10, << >>)
  IN  IF value = << >> THEN 0
      ELSE IF Len(value) = 1 THEN value[1]
      ELSE value[1] + 256 * value[2]

UrlCodePoints ==
  Chars(<<"!", "$", "&", "'", "(", ")", "*", "+", ",", "-", ".", "/", ":", "/",
          "=", "?", "@", "_", "~">>)

is_url_code_point(c) == isalnum(c) \/ is_in(c, UrlCodePoints)

\* A variant that knows the drive letter written with ':' only.
is_windows_drive_letter_colon_only(text) ==
  /\ Len(text) >= 2
  /\ isalpha(text[1])
  /\ text[2] = cColon

\* is_windows_drive_letter(it, last) on the text from `it` to the end.
is_windows_drive_letter(text) ==
  /\ Len(text) >= 2
  /\ isalpha(text[1])
  /\ text[2] \in {cColon, cPipe}

Dot == S(<<".">>)
Pct2e == S(<<"%", "2", "e">>)

\* A variant that knows the plain single dot only.
is_single_dot_path_segment_plain(segment) ==
  segment = Dot

is_single_dot_path_segment(segment) ==
  LET segment_lower == ToLowerStr(segment)
  IN  segment_lower = Dot \/ segment_lower = Pct2e

is_pct_encoded(text) ==
  /\ Len(text) >= 3
  /\ text[1] = cPercent
  /\ isxdigit(text[2])
  /\ isxdigit(text[3])

is_double_dot_path_segment(segment) ==
  LET segment_lower == ToLowerStr(segment)
  IN  \/ segment_lower = Dot \o Dot
      \/ segment_lower = Dot \o Pct2e
      \/ segment_lower = Pct2e \o Dot
      \/ segment_lower = Pct2e \o Pct2e

\* shorten_path: the new path.
shorten_path(scheme, path) ==
  IF path = << >> THEN path
  ELSE IF scheme = FileScheme /\ Len(path) = 1 /\ is_windows_drive_letter(path[1])
    THEN path
  ELSE SubSeq(path, 1, Len(path) - 1)

\* ------------------------------------------------------------------------
\* The URL record and the parser context (url_record, url_parser_context)
\* ------------------------------------------------------------------------

EmptyStr == << >>

\* url_record{}
EmptyRecord ==
  [scheme |-> EmptyStr, username |-> EmptyStr, password |-> EmptyStr,
   host |-> None, port |-> None, path |-> << >>,
   query |-> None, fragment |-> None, cannot_be_a_base_url |-> FALSE]

url_is_special(url) == is_special(url.scheme)

includes_credentials(url) == url.username # EmptyStr \/ url.password # EmptyStr

\* The bytes the constructor strips from both ends of the input.
Whitespace == {NUL, 27, 4, 18, 31}

\* is_whitespace of the source is true of the bytes that are NOT stripped.
is_whitespace(ch) == ~(isspace(ch) \/ is_in(ch, Whitespace))

RECURSIVE remove_leading_whitespace(_)
remove_leading_whitespace(input) ==
  IF input # << >> /\ ~is_whitespace(input[1])
    THEN remove_leading_whitespace(Tail(input))
    ELSE input

\* A variant that leaves the end of the input alone.
remove_trailing_whitespace_none(input) == input

RECURSIVE remove_trailing_whitespace(_)
remove_trailing_whitespace(input) ==
  IF input # << >> /\ ~is_whitespace(input[Len(input)])
    THEN remove_trailing_whitespace(SubSeq(input, 1, Len(input) - 1))
    ELSE input

remove_tabs_and_newlines(input) == SelectSeq(input, LAMBDA c : c \notin {HT, CR, LF})

Sanitise(input) ==
  remove_tabs_and_newlines(remove_trailing_whitespace(remove_leading_whitespace(input)))

\* url_parser_context::url_parser_context
NewContext(input, base, url, state_override) ==
  [given |-> input,
   input |-> Sanitise(input),
   it |-> 1,
   base |-> base,
   url |-> IF Has(url) THEN Val(url) ELSE EmptyRecord,
   state |-> IF Has(state_override) THEN Val(state_override) ELSE "scheme_start",
   state_override |-> state_override,
   buffer |-> EmptyStr,
   at_flag |-> FALSE,
   square_braces_flag |-> FALSE,
   password_token_seen_flag |-> FALSE,
   validation_error |-> Sanitise(input) # input]

is_eof(x) == x.it = Len(x.input) + 1

\* *context.it; at end(view) this is the NUL that terminates the input.
Cur(x) == IF x.it \in 1..Len(x.input) THEN x.input[x.it] ELSE NUL

\* The text from the current byte to the end of the view.
Remaining(x) == SubSeq(x.input, x.it, Len(x.input))

increment(x) == [x EXCEPT !.it = @ + 1]
decrement(x) == [x EXCEPT !.it = @ - 1]
\* A variant that leaves the position where it is.
reset_nothing(x) == x

reset(x) == [x EXCEPT !.it = 1]
restart_from_buffer(x) == [x EXCEPT !.it = @ - Len(x.buffer) - 1]

RECURSIVE StartsWithFrom(_, _, _, _)
StartsWithFrom(input, i, chars, k) ==
  IF k > Len(chars) THEN TRUE
  ELSE IF (IF i <= Len(input) THEN input[i] ELSE NUL) # chars[k] THEN FALSE
  ELSE IF i + 1 = Len(input) + 1 THEN k + 1 > Len(chars)
  ELSE StartsWithFrom(input, i + 1, chars, k + 1)

\* remaining_starts_with(it, end(view), chars): the text after the
\* current byte starts with chars.
remaining_starts_with(x, chars) == StartsWithFrom(x.input, x.it + 1, chars, 1)

\* A handler's result: the context it leaves and the action it returns.
Ret(x, action) == [ctx |-> x, action |-> action]

\* ------------------------------------------------------------------------
\* State handlers
\* ------------------------------------------------------------------------

SchemeExtra == Chars(<<"+", "-", ".">>)

\* A variant that appends the byte as it was written.
parse_scheme_start_keeps_case(x) ==
  LET c == Cur(x)
  IN  IF isalpha(c)
        THEN Ret([x EXCEPT !.buffer = Append(@, c), !.state = "scheme"],
                 "increment")
      ELSE IF ~Has(x.state_override)
        THEN Ret(reset([x EXCEPT !.state = "no_scheme"]), "continue")
      ELSE Ret([x EXCEPT !.validation_error = TRUE], "fail")

parse_scheme_start(x) ==
  LET c == Cur(x)
  IN  IF isalpha(c)
        THEN Ret([x EXCEPT !.buffer = Append(@, tolower(c)), !.state = "scheme"],
                 "increment")
      ELSE IF ~Has(x.state_override)
        THEN Ret(reset([x EXCEPT !.state = "no_scheme"]), "continue")
      ELSE Ret([x EXCEPT !.validation_error = TRUE], "fail")

\* A variant that treats "file" as any other special scheme.
SchemeNextState_without_file(x) ==
  IF url_is_special(x.url) /\ Has(x.base) /\ Val(x.base).scheme = x.url.scheme
    THEN [x EXCEPT !.state = "special_relative_or_authority"]
  ELSE IF url_is_special(x.url)
    THEN [x EXCEPT !.state = "special_authority_slashes"]
  ELSE IF remaining_starts_with(x, S(<<"/">>))
    THEN increment([x EXCEPT !.state = "path_or_authority"])
  ELSE [x EXCEPT !.url.cannot_be_a_base_url = TRUE,
                 !.url.path = Append(@, EmptyStr),
                 !.state = "cannot_be_a_base_url_path"]

\* The part of parse_scheme after url.scheme = buffer; buffer.clear().
SchemeNextState(x) ==
  IF x.url.scheme = FileScheme
    THEN [x EXCEPT !.validation_error =
                       @ \/ ~remaining_starts_with(x, S(<<"/", "/">>)),
                   !.state = "file"]
  ELSE IF url_is_special(x.url) /\ Has(x.base) /\ Val(x.base).scheme = x.url.scheme
    THEN [x EXCEPT !.state = "special_relative_or_authority"]
  ELSE IF url_is_special(x.url)
    THEN [x EXCEPT !.state = "special_authority_slashes"]
  ELSE IF remaining_starts_with(x, S(<<"/">>))
    THEN increment([x EXCEPT !.state = "path_or_authority"])
  ELSE [x EXCEPT !.url.cannot_be_a_base_url = TRUE,
                 !.url.path = Append(@, EmptyStr),
                 !.state = "cannot_be_a_base_url_path"]

\* The checks parse_scheme makes on ':' when there is a state override.
\* A variant without the check of a new scheme 'file'.
SchemeOverrideConflict_any_file(x) ==
  \/ url_is_special(x.url) /\ ~is_special(x.buffer)
  \/ ~url_is_special(x.url) /\ is_special(x.buffer)
  \/ x.url.scheme = FileScheme /\ (~Has(x.url.host) \/ Val(x.url.host) = EmptyStr)

SchemeOverrideConflict(x) ==
  \/ url_is_special(x.url) /\ ~is_special(x.buffer)
  \/ ~url_is_special(x.url) /\ is_special(x.buffer)
  \/ (includes_credentials(x.url) \/ Has(x.url.port)) /\ x.buffer = FileScheme
  \/ x.url.scheme = FileScheme /\ (~Has(x.url.host) \/ Val(x.url.host) = EmptyStr)

parse_scheme(x) ==
  LET c == Cur(x)
  IN  IF isalnum(c) \/ is_in(c, SchemeExtra)
        THEN Ret([x EXCEPT !.buffer = Append(@, tolower(c))], "increment")
      ELSE IF c = cColon
        THEN IF Has(x.state_override) /\ SchemeOverrideConflict(x)
               THEN Ret(x, "fail")
               ELSE Ret(SchemeNextState([x EXCEPT !.url.scheme = x.buffer,
                                                  !.buffer = EmptyStr]),
                        "increment")
      ELSE IF ~Has(x.state_override)
        THEN Ret(reset([x EXCEPT !.buffer = EmptyStr, !.state = "no_scheme"]),
                 "continue")
      ELSE Ret(x, "increment")

\* A variant that goes on without looking for the base.
parse_no_scheme_unchecked(x) ==
  IF Has(x.base) /\ Val(x.base).scheme = FileScheme
    THEN Ret(reset([x EXCEPT !.state = "file"]), "continue")
    ELSE Ret(reset([x EXCEPT !.state = "relative"]), "continue")

\* A variant that resolves against any base, also one that cannot be a base.
parse_no_scheme_any_base(x) ==
  IF ~Has(x.base)
    THEN Ret([x EXCEPT !.validation_error = TRUE], "fail")
  ELSE IF Val(x.base).scheme # FileScheme
    THEN Ret(reset([x EXCEPT !.state = "relative"]), "continue")
  ELSE Ret(reset([x EXCEPT !.state = "file"]), "continue")

parse_no_scheme(x) ==
  LET c == Cur(x)
  IN  IF ~Has(x.base) \/ (Val(x.base).cannot_be_a_base_url /\ c # cHash)
        THEN Ret([x EXCEPT !.validation_error = TRUE], "fail")
      ELSE IF Val(x.base).cannot_be_a_base_url /\ c = cHash
        THEN Ret([x EXCEPT !.url.scheme = Val(x.base).scheme,
                           !.url.path = Val(x.base).path,
                           !.url.query = Val(x.base).query,
                           !.url.fragment = Some(EmptyStr),
                           !.url.cannot_be_a_base_url = TRUE,
                           !.state = "fragment"],
                 "increment")
      ELSE IF Val(x.base).scheme # FileScheme
        THEN Ret(reset([x EXCEPT !.state = "relative"]), "continue")
      ELSE Ret(reset([x EXCEPT !.state = "file"]), "continue")

parse_special_relative_or_authority(x) ==
  LET c == Cur(x)
  IN  IF c = cSlash /\ remaining_starts_with(x, S(<<"/">>))
        THEN Ret(increment([x EXCEPT !.state = "special_authority_ignore_slashes"]),
                 "increment")
        ELSE Ret(decrement([x EXCEPT !.validation_error = TRUE,
                                     !.state = "relative"]),
                 "increment")

parse_path_or_authority(x) ==
  LET c == Cur(x)
  IN  IF c = cSlash
        THEN Ret([x EXCEPT !.state = "authority"], "increment")
        ELSE Ret(decrement([x EXCEPT !.state = "path"]), "increment")

\* A variant that leaves the port of the base behind.
InheritAuthority_without_port(x) ==
  [x EXCEPT !.url.username = Val(x.base).username,
            !.url.password = Val(x.base).password,
            !.url.host = Val(x.base).host]

\* url takes username, password, host and port of the base.
InheritAuthority(x) ==
  [x EXCEPT !.url.username = Val(x.base).username,
            !.url.password = Val(x.base).password,
            !.url.host = Val(x.base).host,
            !.url.port = Val(x.base).port]

\* parse_relative is only entered with a base (see parse_no_scheme and
\* parse_special_relative_or_authority).
parse_relative(x) ==
  LET c == Cur(x)
      b == Val(x.base)
      x1 == [x EXCEPT !.url.scheme = b.scheme]
  IN  IF is_eof(x1)
        THEN Ret([InheritAuthority(x1) EXCEPT !.url.path = b.path,
                                              !.url.query = b.query],
                 "increment")
      ELSE IF c = cSlash
        THEN Ret([x1 EXCEPT !.state = "relative_slash"], "increment")
      ELSE IF c = cQuestion
        THEN Ret([InheritAuthority(x1) EXCEPT !.url.path = b.path,
                                              !.url.query = Some(EmptyStr),
                                              !.state = "query"],
                 "increment")
      ELSE IF c = cHash
        THEN Ret([InheritAuthority(x1) EXCEPT !.url.path = b.path,
                                              !.url.query = b.query,
                                              !.url.fragment = Some(EmptyStr),
                                              !.state = "fragment"],
                 "increment")
      ELSE IF url_is_special(x1.url) /\ c = cBackslash
        THEN Ret([x1 EXCEPT !.validation_error = TRUE, !.state = "relative_slash"],
                 "increment")
      ELSE Ret(decrement([InheritAuthority(x1) EXCEPT
                            !.url.path = IF b.path # << >>
                                           THEN SubSeq(b.path, 1, Len(b.path) - 1)
                                           ELSE b.path,
                            !.state = "path"]),
               "increment")

\* A variant that takes only '/' for the second slash.
parse_relative_slash_only(x) ==
  LET c == Cur(x)
  IN  IF url_is_special(x.url) /\ c = cSlash
        THEN Ret([x EXCEPT !.state = "special_authority_ignore_slashes"],
                 "increment")
      ELSE IF c = cSlash
        THEN Ret([x EXCEPT !.state = "authority"], "increment")
      ELSE Ret(decrement([InheritAuthority(x) EXCEPT !.state = "path"]),
               "increment")

parse_relative_slash(x) ==
  LET c == Cur(x)
  IN  IF url_is_special(x.url) /\ (c = cSlash \/ c = cBackslash)
        THEN Ret([x EXCEPT !.validation_error = @ \/ c = cBackslash,
                           !.state = "special_authority_ignore_slashes"],
                 "increment")
      ELSE IF c = cSlash
        THEN Ret([x EXCEPT !.state = "authority"], "increment")
      ELSE Ret(decrement([InheritAuthority(x) EXCEPT !.state = "path"]),
               "increment")

parse_special_authority_slashes(x) ==
  LET c == Cur(x)
  IN  IF c = cSlash /\ remaining_starts_with(x, S(<<"/">>))
        THEN Ret(increment([x EXCEPT !.state = "special_authority_ignore_slashes"]),
                 "increment")
        ELSE Ret(decrement([x EXCEPT !.validation_error = TRUE,
                                     !.state = "special_authority_ignore_slashes"]),
                 "increment")

\* A variant that steps back without leaving the state.
parse_special_authority_ignore_slashes_keeps_state(x) ==
  LET c == Cur(x)
  IN  IF c # cSlash /\ c # cBackslash
        THEN Ret(decrement(x), "increment")
        ELSE Ret([x EXCEPT !.validation_error = TRUE], "increment")

parse_special_authority_ignore_slashes(x) ==
  LET c == Cur(x)
  IN  IF c # cSlash /\ c # cBackslash
        THEN Ret(decrement([x EXCEPT !.state = "authority"]), "increment")
        ELSE Ret([x EXCEPT !.validation_error = TRUE], "increment")

UserinfoSet ==
  Chars(<<" ", "\"", "<", ">", "backquote", "#", "?", "{", "}", "/", ":", ";", "=",
          "@", "[", "\\", "]", "^", "|">>)

PathSet == Chars(<<" ", "\"", "<", ">", "backquote", "#", "?", "{", "}">>)

QuerySet == Chars(<<" ", "\"", "#", "<", ">">>)

FragmentSet == Chars(<<" ", "\"", "<", ">", "backquote">>)

RECURSIVE Userinfo(_, _)
\* The loop of parse_authority over the bytes of the buffer.
Userinfo(x, buf) ==
  IF buf = << >> THEN x
  ELSE IF buf[1] = cColon /\ ~x.password_token_seen_flag
    THEN Userinfo([x EXCEPT !.password_token_seen_flag = TRUE], Tail(buf))
  ELSE LET pct_encoded == pct_encode_char(buf[1], UserinfoSet)
       IN  IF x.password_token_seen_flag
             THEN Userinfo([x EXCEPT !.url.password = @ \o pct_encoded], Tail(buf))
             ELSE Userinfo([x EXCEPT !.url.username = @ \o pct_encoded], Tail(buf))

\* EOF, '/', '?', '#', or '\' in a special URL: the end of the authority,
\* the host and the port.
AuthorityEnd(x) ==
  LET c == Cur(x)
  IN  \/ is_eof(x) \/ c = cSlash \/ c = cQuestion \/ c = cHash
      \/ (url_is_special(x.url) /\ c = cBackslash)

\* A variant that does not put "%40" in front of the buffer at a second
\* '@'.
parse_authority_drops_at(x) ==
  LET c == Cur(x)
  IN  IF c = cAt
        THEN LET x1 == Userinfo([x EXCEPT !.validation_error = TRUE,
                                          !.at_flag = TRUE], x.buffer)
             IN  Ret([x1 EXCEPT !.buffer = EmptyStr], "increment")
      ELSE IF AuthorityEnd(x)
        THEN IF x.at_flag /\ x.buffer = EmptyStr
               THEN Ret([x EXCEPT !.validation_error = TRUE], "fail")
               ELSE Ret([restart_from_buffer(x) EXCEPT !.state = "host",
                                                       !.buffer = EmptyStr],
                        "increment")
      ELSE Ret([x EXCEPT !.buffer = Append(@, c)], "increment")

\* A variant that goes on to the host state with an empty buffer after
\* credentials.
parse_authority_accepts_no_host(x) ==
  LET c == Cur(x)
  IN  IF c = cAt
        THEN LET buf == IF x.at_flag THEN S(<<"%", "4", "0">>) \o x.buffer
                        ELSE x.buffer
                 x1 == Userinfo([x EXCEPT !.validation_error = TRUE,
                                          !.at_flag = TRUE], buf)
             IN  Ret([x1 EXCEPT !.buffer = EmptyStr], "increment")
      ELSE IF AuthorityEnd(x)
        THEN Ret([restart_from_buffer(x) EXCEPT !.state = "host",
                                                !.buffer = EmptyStr],
                 "increment")
      ELSE Ret([x EXCEPT !.buffer = Append(@, c)], "increment")

parse_authority(x) ==
  LET c == Cur(x)
  IN  IF c = cAt
        THEN LET buf == IF x.at_flag THEN S(<<"%", "4", "0">>) \o x.buffer
                        ELSE x.buffer
                 x1 == Userinfo([x EXCEPT !.validation_error = TRUE,
                                          !.at_flag = TRUE], buf)
             IN  Ret([x1 EXCEPT !.buffer = EmptyStr], "increment")
      ELSE IF AuthorityEnd(x)
        THEN IF x.at_flag /\ x.buffer = EmptyStr
               THEN Ret([x EXCEPT !.validation_error = TRUE], "fail")
               ELSE Ret([restart_from_buffer(x) EXCEPT !.state = "host",
                                                       !.buffer = EmptyStr],
                        "increment")
      ELSE Ret([x EXCEPT !.buffer = Append(@, c)], "increment")

\* A variant without the two tests for an empty buffer.
parse_hostname_accepts_empty(x) ==
  LET c == Cur(x)
      Store(x1, host, state, action) ==
        IF ~Has(host) THEN Ret(x1, "fail")
        ELSE Ret([x1 EXCEPT !.url.host = host,
                            !.buffer = EmptyStr,
                            !.state = state],
                 action)
  IN  IF Has(x.state_override) /\ x.url.scheme = FileScheme
        THEN Ret(decrement([x EXCEPT !.state = "file_host"]), "increment")
      ELSE IF c = cColon /\ ~x.square_braces_flag
        THEN Store(x, parse_host(x.buffer, FALSE), "port",
                   IF x.state_override = Some("hostname")
                     THEN "success" ELSE "increment")
      ELSE IF AuthorityEnd(x)
        THEN Store(decrement(x), parse_host(x.buffer, FALSE), "path_start",
                   "increment")
      ELSE Ret([x EXCEPT !.square_braces_flag =
                             IF c = cLBracket THEN TRUE
                             ELSE IF c = cRBracket THEN FALSE ELSE @,
                         !.buffer = Append(@, c)],
               "increment")

\* A variant in which ':' ends the host inside square brackets too.
parse_hostname_colon_ends_host(x) ==
  LET c == Cur(x)
      Store(x1, host, state, action) ==
        IF ~Has(host) THEN Ret(x1, "fail")
        ELSE Ret([x1 EXCEPT !.url.host = host,
                            !.buffer = EmptyStr,
                            !.state = state],
                 action)
  IN  IF Has(x.state_override) /\ x.url.scheme = FileScheme
        THEN Ret(decrement([x EXCEPT !.state = "file_host"]), "increment")
      ELSE IF c = cColon
        THEN IF x.buffer = EmptyStr
               THEN Ret([x EXCEPT !.validation_error = TRUE], "fail")
             ELSE Store(x, parse_host(x.buffer, FALSE), "port",
                        IF x.state_override = Some("hostname")
                          THEN "success" ELSE "increment")
      ELSE IF AuthorityEnd(x)
        THEN IF url_is_special(x.url) /\ x.buffer = EmptyStr
               THEN Ret([decrement(x) EXCEPT !.validation_error = TRUE], "fail")
             ELSE Store(decrement(x), parse_host(x.buffer, FALSE), "path_start",
                        "increment")
      ELSE Ret([x EXCEPT !.square_braces_flag =
                             IF c = cLBracket THEN TRUE
                             ELSE IF c = cRBracket THEN FALSE ELSE @,
                         !.buffer = Append(@, c)],
               "increment")

parse_hostname(x) ==
  LET c == Cur(x)
      Store(x1, host, state, action) ==
        IF ~Has(host) THEN Ret(x1, "fail")
        ELSE Ret([x1 EXCEPT !.url.host = host,
                            !.buffer = EmptyStr,
                            !.state = state],
                 action)
  IN  IF Has(x.state_override) /\ x.url.scheme = FileScheme
        THEN Ret(decrement([x EXCEPT !.state = "file_host"]), "increment")
      ELSE IF c = cColon /\ ~x.square_braces_flag
        THEN IF x.buffer = EmptyStr
               THEN Ret([x EXCEPT !.validation_error = TRUE], "fail")
             ELSE Store(x, parse_host(x.buffer, FALSE), "port",
                        IF x.state_override = Some("hostname")
                          THEN "success" ELSE "increment")
      ELSE IF AuthorityEnd(x)
        THEN IF url_is_special(x.url) /\ x.buffer = EmptyStr
               THEN Ret([decrement(x) EXCEPT !.validation_error = TRUE], "fail")
             ELSE Store(decrement(x), parse_host(x.buffer, FALSE), "path_start",
                        "increment")
      ELSE Ret([x EXCEPT !.square_braces_flag =
                             IF c = cLBracket THEN TRUE
                             ELSE IF c = cRBracket THEN FALSE ELSE @,
                         !.buffer = Append(@, c)],
               "increment")

parse_port(x) ==
  LET c == Cur(x)
  IN  IF isdigit(c)
        THEN Ret([x EXCEPT !.buffer = Append(@, c)], "increment")
      ELSE IF AuthorityEnd(x) \/ Has(x.state_override)
        THEN IF x.buffer # EmptyStr /\ ~is_valid_port(x.buffer)
               THEN Ret([x EXCEPT !.validation_error = TRUE], "fail")
             ELSE LET port == atoi(x.buffer)
                      x1 == IF x.buffer # EmptyStr
                              THEN [x EXCEPT
                                      !.url.port =
                                         IF is_default_port(x.url.scheme, port)
                                           THEN None ELSE Some(port),
                                      !.buffer = EmptyStr]
                              ELSE x
                  IN  IF Has(x.state_override) THEN Ret(x1, "success")
                      ELSE Ret(decrement([x1 EXCEPT !.state = "path_start"]),
                               "increment")
      ELSE Ret([x EXCEPT !.validation_error = TRUE], "fail")

parse_file(x) ==
  LET c == Cur(x)
      x1 == [x EXCEPT !.url.scheme = FileScheme]
  IN  IF c = cSlash \/ c = cBackslash
        THEN Ret([x1 EXCEPT !.validation_error = @ \/ c = cBackslash,
                            !.state = "file_slash"],
                 "increment")
      ELSE IF Has(x.base) /\ Val(x.base).scheme = FileScheme
        THEN LET b == Val(x.base)
             IN  IF is_eof(x1)
                   THEN Ret([x1 EXCEPT !.url.host = b.host, !.url.path = b.path,
                                       !.url.query = b.query],
                            "increment")
                 ELSE IF c = cQuestion
                   THEN Ret([x1 EXCEPT !.url.host = b.host, !.url.path = b.path,
                                       !.url.query = Some(EmptyStr),
                                       !.state = "query"],
                            "increment")
                 ELSE IF c = cHash
                   THEN Ret([x1 EXCEPT !.url.host = b.host, !.url.path = b.path,
                                       !.url.query = b.query,
                                       !.url.fragment = Some(EmptyStr),
                                       !.state = "fragment"],
                            "increment")
                 ELSE IF ~is_windows_drive_letter(Remaining(x1))
                   THEN Ret(decrement([x1 EXCEPT
                                         !.url.host = b.host,
                                         !.url.path = shorten_path(FileScheme, b.path),
                                         !.state = "path"]),
                            "increment")
                 ELSE Ret(decrement([x1 EXCEPT !.validation_error = TRUE,
                                               !.state = "path"]),
                          "increment")
      ELSE Ret(decrement([x1 EXCEPT !.state = "path"]), "increment")

parse_file_slash(x) ==
  LET c == Cur(x)
  IN  IF c = cSlash \/ c = cBackslash
        THEN Ret([x EXCEPT !.validation_error = @ \/ c = cBackslash,
                           !.state = "file_host"],
                 "increment")
      ELSE LET inherit == /\ Has(x.base)
                          /\ Val(x.base).scheme = FileScheme
                          /\ ~is_windows_drive_letter(Remaining(x))
               b == Val(x.base)
               x1 == IF ~inherit THEN x
                     ELSE IF b.path # << >> /\ is_windows_drive_letter(b.path[1])
                       THEN [x EXCEPT !.url.path = Append(@, b.path[1])]
                     ELSE [x EXCEPT !.url.host = b.host]
           IN  Ret(decrement([x1 EXCEPT !.state = "path"]), "increment")

Localhost == S(<<"l", "o", "c", "a", "l", "h", "o", "s", "t">>)

parse_file_host(x) ==
  LET c == Cur(x)
      Store(x1, host) ==
        IF ~Has(host) THEN Ret(x1, "fail")
        ELSE IF Has(x1.state_override)
          THEN Ret([x1 EXCEPT !.url.host =
                                 IF Val(host) = Localhost THEN Some(EmptyStr)
                                 ELSE host],
                   "success")
        ELSE Ret([x1 EXCEPT !.url.host =
                               IF Val(host) = Localhost THEN Some(EmptyStr)
                               ELSE host,
                            !.buffer = EmptyStr,
                            !.state = "path_start"],
                 "increment")
      End(x1) ==
        IF ~Has(x1.state_override) /\ is_windows_drive_letter(x1.buffer)
          THEN Ret([x1 EXCEPT !.validation_error = TRUE, !.state = "path"],
                   "increment")
        ELSE IF x1.buffer = EmptyStr
          THEN IF Has(x1.state_override)
                 THEN Ret([x1 EXCEPT !.url.host = Some(EmptyStr)], "success")
                 ELSE Ret([x1 EXCEPT !.url.host = Some(EmptyStr),
                                     !.state = "path_start"],
                          "increment")
        ELSE Store(x1, parse_host(x1.buffer, ~url_is_special(x1.url)))
  IN  IF is_eof(x) \/ c = cSlash \/ c = cBackslash \/ c = cQuestion \/ c = cHash
        THEN End(decrement(x))
      ELSE Ret([x EXCEPT !.buffer = Append(@, c)], "increment")

parse_path_start(x) ==
  LET c == Cur(x)
  IN  IF url_is_special(x.url)
        THEN LET x1 == [x EXCEPT !.validation_error = @ \/ c = cBackslash,
                                 !.state = "path"]
             IN  Ret(IF c # cSlash /\ c # cBackslash THEN decrement(x1) ELSE x1,
                     "increment")
      ELSE IF ~Has(x.state_override) /\ c = cQuestion
        THEN Ret([x EXCEPT !.url.query = Some(EmptyStr), !.state = "query"],
                 "increment")
      ELSE IF ~Has(x.state_override) /\ c = cHash
        THEN Ret([x EXCEPT !.url.fragment = Some(EmptyStr), !.state = "fragment"],
                 "increment")
      ELSE IF ~is_eof(x)
        THEN IF c # cSlash
               THEN Ret(decrement([x EXCEPT !.state = "path"]), "increment")
               ELSE Ret([x EXCEPT !.state = "path",
                                  !.url.path = Append(@, x.buffer)],
                        "increment")
      ELSE Ret(x, "increment")

RECURSIVE PopLeadingEmpty(_)
\* The loop of parse_path that drops leading empty segments of a file URL.
PopLeadingEmpty(path) ==
  IF Len(path) > 1 /\ path[1] = EmptyStr THEN PopLeadingEmpty(Tail(path)) ELSE path

parse_path(x) ==
  LET c == Cur(x)
      slash == c = cSlash \/ (url_is_special(x.url) /\ c = cBackslash)
  IN  IF is_eof(x) \/ slash
         \/ (~Has(x.state_override) /\ (c = cQuestion \/ c = cHash))
        THEN LET x1 == [x EXCEPT !.validation_error =
                                     @ \/ (url_is_special(x.url) /\ c = cBackslash)]
                 drive == /\ x1.url.scheme = FileScheme
                          /\ x1.url.path = << >>
                          /\ is_windows_drive_letter(x1.buffer)
                 x2 == IF is_double_dot_path_segment(x1.buffer)
                         THEN LET p == shorten_path(x1.url.scheme, x1.url.path)
                              IN  [x1 EXCEPT !.url.path =
                                      IF ~slash THEN Append(p, EmptyStr) ELSE p]
                       ELSE IF is_single_dot_path_segment(x1.buffer)
                         THEN IF ~slash
                                THEN [x1 EXCEPT !.url.path = Append(@, EmptyStr)]
                                ELSE x1
                       ELSE IF drive
                         THEN LET clear == ~Has(x1.url.host)
                                             \/ Val(x1.url.host) # EmptyStr
                              IN  [x1 EXCEPT
                                     !.validation_error = @ \/ clear,
                                     !.url.host = IF clear THEN Some(EmptyStr) ELSE @,
                                     !.url.path =
                                        Append(@, [x1.buffer EXCEPT ![2] = cColon])]
                       ELSE [x1 EXCEPT !.url.path = Append(@, x1.buffer)]
                 x3 == [x2 EXCEPT !.buffer = EmptyStr]
                 x4 == IF x3.url.scheme = FileScheme
                          /\ (is_eof(x3) \/ c = cQuestion \/ c = cHash)
                         THEN [x3 EXCEPT
                                 !.validation_error =
                                    @ \/ PopLeadingEmpty(x3.url.path) # x3.url.path,
                                 !.url.path = PopLeadingEmpty(@)]
                         ELSE x3
                 x5 == IF c = cQuestion
                         THEN [x4 EXCEPT !.url.query = Some(EmptyStr),
                                         !.state = "query"]
                       ELSE IF c = cHash
                         THEN [x4 EXCEPT !.url.fragment = Some(EmptyStr),
                                         !.state = "fragment"]
                       ELSE x4
             IN  Ret(x5, "increment")
        ELSE Ret([x EXCEPT !.buffer = @ \o pct_encode_char(c, PathSet)], "increment")

parse_cannot_be_a_base_url(x) ==
  LET c == Cur(x)
  IN  IF c = cQuestion
        THEN Ret([x EXCEPT !.url.query = Some(EmptyStr), !.state = "query"],
                 "increment")
      ELSE IF c = cHash
        THEN Ret([x EXCEPT !.url.fragment = Some(EmptyStr), !.state = "fragment"],
                 "increment")
      ELSE LET x1 == [x EXCEPT !.validation_error =
                         \/ @
                         \/ (~is_eof(x) /\ ~is_url_code_point(c) /\ c # cPercent)
                         \/ (~(~is_eof(x) /\ ~is_url_code_point(c) /\ c # cPercent)
                               /\ c = cPercent /\ ~is_pct_encoded(Remaining(x)))]
           IN  IF ~is_eof(x)
                 THEN Ret([x1 EXCEPT !.url.path[1] = @ \o pct_encode_char(c, {})],
                          "increment")
                 ELSE Ret(x1, "increment")

parse_query(x) ==
  LET c == Cur(x)
  IN  IF ~Has(x.state_override) /\ c = cHash
        THEN Ret([x EXCEPT !.url.fragment = Some(EmptyStr), !.state = "fragment"],
                 "increment")
      ELSE IF ~is_eof(x)
        THEN Ret([x EXCEPT !.url.query[1] = @ \o pct_encode_char(c, QuerySet)],
                 "increment")
      ELSE Ret(x, "increment")

\* A variant that encodes the fragment with the query set.
parse_fragment_query_set(x) ==
  LET c == Cur(x)
  IN  IF c = NUL
        THEN Ret([x EXCEPT !.validation_error = TRUE], "increment")
        ELSE Ret([x EXCEPT !.url.fragment[1] = @ \o pct_encode_char(c, QuerySet)],
                 "increment")

\* A variant that starts a query at a '?' in the fragment.
parse_fragment_reopens_query(x) ==
  LET c == Cur(x)
  IN  IF c = NUL
        THEN Ret([x EXCEPT !.validation_error = TRUE], "increment")
      ELSE IF c = cQuestion
        THEN Ret([x EXCEPT !.url.query = Some(EmptyStr), !.state = "query"],
                 "increment")
      ELSE Ret([x EXCEPT !.url.fragment[1] = @ \o pct_encode_char(c, FragmentSet)],
               "increment")

parse_fragment(x) ==
  LET c == Cur(x)
  IN  IF c = NUL
        THEN Ret([x EXCEPT !.validation_error = TRUE], "increment")
        ELSE Ret([x EXCEPT !.url.fragment[1] = @ \o pct_encode_char(c, FragmentSet)],
                 "increment")

\* parse_funcs[context.state](context, *context.it)
parse_funcs(x) ==
  CASE x.state = "scheme_start" -> parse_scheme_start(x)
    [] x.state = "scheme" -> parse_scheme(x)
    [] x.state = "no_scheme" -> parse_no_scheme(x)
    [] x.state = "special_relative_or_authority" ->
         parse_special_relative_or_authority(x)
    [] x.state = "path_or_authority" -> parse_path_or_authority(x)
    [] x.state = "relative" -> parse_relative(x)
    [] x.state = "relative_slash" -> parse_relative_slash(x)
    [] x.state = "special_authority_slashes" -> parse_special_authority_slashes(x)
    [] x.state = "special_authority_ignore_slashes" ->
         parse_special_authority_ignore_slashes(x)
    [] x.state = "authority" -> parse_authority(x)
    [] x.state \in {"host", "hostname"} -> parse_hostname(x)
    [] x.state = "port" -> parse_port(x)
    [] x.state = "file" -> parse_file(x)
    [] x.state = "file_slash" -> parse_file_slash(x)
    [] x.state = "file_host" -> parse_file_host(x)
    [] x.state = "path_start" -> parse_path_start(x)
    [] x.state = "path" -> parse_path(x)
    [] x.state = "cannot_be_a_base_url_path" -> parse_cannot_be_a_base_url(x)
    [] x.state = "query" -> parse_query(x)
    [] x.state = "fragment" -> parse_fragment(x)

RECURSIVE basic_parse_loop(_), basic_parse_turn(_)
\* The while loop of basic_parse as a function of the context: how the
\* parse returns, the record, and validation_error.
basic_parse_loop(x) == basic_parse_turn(parse_funcs(x))

\* One turn of the loop after the handler has returned r.
basic_parse_turn(r) ==
  IF r.action = "fail"
    THEN [status |-> "fail", url |-> r.ctx.url,
          validation_error |-> r.ctx.validation_error]
  ELSE IF r.action = "success" \/ (r.action = "increment" /\ is_eof(r.ctx))
    THEN [status |-> "success", url |-> r.ctx.url,
          validation_error |-> r.ctx.validation_error]
  ELSE IF r.action = "continue" THEN basic_parse_loop(r.ctx)
  ELSE basic_parse_loop(increment(r.ctx))

basic_parse(input, base, url, state_override) ==
  basic_parse_loop(NewContext(input, base, url, state_override))

\* ------------------------------------------------------------------------
\* Serialisation (skyr/url_serialize.hpp)
\* ------------------------------------------------------------------------

RECURSIVE Join(_, _)
Join(path, separator) ==
  IF path = << >> THEN << >>
  ELSE IF Len(path) = 1 THEN path[1]
  ELSE path[1] \o separator \o Join(Tail(path), separator)

Serialize(url) ==
  url.scheme \o << cColon >>
    \o (IF Has(url.host)
          THEN << cSlash, cSlash >>
                 \o (IF includes_credentials(url)
                       THEN url.username
                              \o (IF url.password # EmptyStr
                                    THEN << cColon >> \o url.password ELSE << >>)
                              \o << cAt >>
                       ELSE << >>)
                 \o Val(url.host)
                 \o (IF Has(url.port) THEN << cColon >> \o Decimal(Val(url.port))
                     ELSE << >>)
        ELSE IF url.scheme = FileScheme THEN << cSlash, cSlash >>
        ELSE << >>)
    \o (IF url.cannot_be_a_base_url THEN url.path[1]
        ELSE << cSlash >> \o Join(url.path, << cSlash >>))
    \o (IF Has(url.query) THEN << cQuestion >> \o Val(url.query) ELSE << >>)
    \o (IF Has(url.fragment) THEN << cHash >> \o Val(url.fragment) ELSE << >>)

\* ------------------------------------------------------------------------
\* Inputs
\* ------------------------------------------------------------------------

\* The longest free tail appended to a prefix.
MaxLen == 3

Alphabet == Chars(<<"a", "B", "1", ":", "/", "\\", "?", "#", "@", ".">>)

RECURSIVE Strings(_, _)
\* The strings over an alphabet of length at most n.
Strings(alphabet, n) ==
  IF n = 0 THEN {<< >>}
  ELSE LET shorter == Strings(alphabet, n - 1)
       IN  shorter \cup {Append(t, c) : t \in shorter, c \in alphabet}

Prefixes ==
  { << >>,
    S(<<"h","t","t","p",":">>),
    S(<<"h","t","t","p",":","/","/">>),
    S(<<"h","t","t","p",":","/","/","h",":">>),
    S(<<"f","i","l","e",":">>),
    S(<<"f","i","l","e",":","/","/">>),
    S(<<"f","o","o",":">>),
    S(<<"f","o","o",":","/","/">>) }

GenericInputs == {p \o t : p \in Prefixes, t \in Strings(Alphabet, MaxLen)}

\* Inputs of the scenarios of the specification and of its edge cases.
ScenarioInputs ==
  { S(<<"h","t","t","p",":","/","/","e","x",".","o","r","g","/","f","o","o","/","b","a","r">>),
    S(<<"h","t","t","p",":","/","/","[","2","0","0","1",":","d","b","8",":",":","1","]",":","8","0","/">>),
    S(<<"h","t","t","p",":","/","/","0","x","7","f",".","1","/">>),
    S(<<"f","i","l","e",":","/","/","/","C","|","/","W","I","N","D","O","W","S">>),
    S(<<"f","o","o",":","/","/","u","s","e","r",":","p","%","4","0","s","s","@","H","/","p","?","q","#","f">>),
    S(<<"h","t","t","p",":","/","/",":","8","0","8","0","/">>),
    S(<<"h","t","t","p",":","/","/","h",":","8","0","/">>),
    S(<<"h","t","t","p","s",":","/","/","h",":","4","4","3">>),
    S(<<"w","s",":","/","/","h",":","8","0","/","x">>),
    S(<<"w","s","s",":","/","/","h",":","4","4","3","/">>),
    S(<<"f","t","p",":","/","/","h",":","2","1","/">>),
    S(<<"h","t","t","p",":","/","/","h",":","6","5","5","3","4","/">>),
    S(<<"h","t","t","p",":","/","/","h",":","6","5","5","3","5","/">>),
    S(<<"h","t","t","p",":","/","/","h",":","6","5","5","3","6","/">>),
    S(<<"H","T","T","P",":","/","/","H","O","S","T","/","P","a","T","h">>),
    S(<<"W","e","b","+","D",".","-","1",":","x","/","y">>),
    S(<<"f","i","l","e",":","/","/","u","@","h",":","8","/">>),
    S(<<"f","i","l","e",":","/","/","l","o","c","a","l","h","o","s","t","/","x">>),
    S(<<"h","t","t","p",":","/","/","u",":","p","@","h","/">>),
    S(<<"f","o","o",":","/","/","h","/","p">>),
    S(<<"f","o","o",":","/",".","/","/","x">>),
    S(<<"h","t","t","p",":","/","/","h","/",".",".","/",".",".","/","a">>),
    S(<<"h","t","t","p",":","/","/","%","2","F","/">>),
    S(<<"h","t","t","p",":","/","/","[",":",":","1">>),
    S(<<"f","o","o",":","/","/","[","a",":","b","/","c">>),
    S(<<"f","i","l","e",":","/","/","/","C","|","a","b","c">>),
    S(<<"f","i","l","e",":","/","/","C","|","a","/","b">>),
    S(<<"f","i","l","e",":","/","/","/","C",":","a","/",".",".","/","b">>),
    S(<<"f","i","l","e",":","/","/","/","C","|","/",".",".","/","%","2","E",".","/",".","%","2","e">>),
    S(<<"h","t","t","p",":","/","/","h","/","a","/","%","2","e","%","2","E","/","b","/",".",".">>),
    S(<<"f","o","o",":","/","/","h","/","a","/","b","/",".",".","/",".",".","/",".",".","/",".",".","?","q">>) }

\* Inputs whose records are used as the base of a relative parse and as the
\* record of a parse with a state override.
BaseInputs ==
  { S(<<"h","t","t","p",":","/","/","a","/","b","/","c","/","d">>),
    S(<<"h","t","t","p",":","/","/","a","/","b","/","c">>),
    S(<<"h","t","t","p",":","/","/","u",":","p","@","h",":","4","4","3","/","x","?","q">>),
    S(<<"h","t","t","p","s",":","/","/","h",":","8","0","/">>),
    S(<<"f","i","l","e",":","/","/","/","C",":","/","d">>),
    S(<<"f","i","l","e",":","/","/","h","/","p","/","q">>),
    S(<<"f","i","l","e",":","p">>),
    S(<<"f","o","o",":","/","p","/","q">>),
    S(<<"f","o","o",":","/","/","h",":","8","0","/","p">>),
    S(<<"f","o","o",":","x","?","q">>) }

RelativeAlphabet == Chars(<<"a", ".", "/", "\\", "?", "#", "|", ":">>)

RelativeInputs ==
  Strings(RelativeAlphabet, MaxLen)
    \cup { S(<<".",".","/","/",".","/","%","2","e","/","a">>),
           S(<<"#","f","r","a","g">>),
           S(<<"#","a"," ","b">>),
           S(<<"f","i","l","e",":","x">>),
           S(<<"f","i","l","e",":","/","/","h","/","p">>),
           S(<<"h","t","t","p",":","x">>),
           S(<<"h","t","t","p","s",":","/","/","g",":","4","4","3">>),
           S(<<"/","/","g",":","8","0","/","y">>),
           S(<<"/","/","g",":","4","4","3","/","y">>),
           S(<<"/","/","v",":","w","@","g">>),
           S(<<".",".","/",".",".","/",".",".","/","x">>) }

\* The states a setter enters the parser in.
OverrideStates == {"scheme_start", "host", "hostname", "port", "path_start"}

OverrideAlphabet == Chars(<<"a", "B", "8", ":", "/", "?", "#">>)

OverrideInputs ==
  Strings(OverrideAlphabet, MaxLen - 1)
    \cup { S(<<"h","t","t","p",":">>),
           S(<<"h","t","t","p","s",":">>),
           S(<<"h","t","t","p","s",":","/","/","g">>),
           S(<<"h","t","t","p",":","/","/","g","/">>),
           S(<<"w","s",":","/","/","g",":","9">>),
           S(<<"f","i","l","e",":">>),
           S(<<"f","i","l","e",":","/","/","g","/">>),
           S(<<"f","o","o",":">>),
           S(<<"b","a","r",":","x">>),
           S(<<"b","a","r",":","/","/","g">>),
           S(<<"4","4","3">>),
           S(<<"8","0">>),
           S(<<"6","5","5","3","6">>),
           S(<<"e","x",".","o","r","g">>),
           S(<<"e","x",".","o","r","g",":","8","1">>),
           S(<<"[",":",":","1","]">>) }

\* Hosts that exercise the numeric form of an IPv4 address.
Ipv4Hosts ==
  Strings(Chars(<<"0", "1", "8", "x", ".">>), MaxLen)
    \cup { S(<<"2","5","6",".","1">>),
           S(<<"1",".","2","5","6",".","1",".","1">>),
           S(<<"1",".","1",".","1",".","2","5","5">>),
           S(<<"1",".","1",".","1",".","2","5","6">>),
           S(<<"1",".","1",".","6","5","5","3","5">>),
           S(<<"1",".","1",".","6","5","5","3","6">>),
           S(<<"1",".","1","6","7","7","7","2","1","5">>),
           S(<<"1",".","1","6","7","7","7","2","1","6">>),
           S(<<"4","2","9","4","9","6","7","2","9","5">>),
           S(<<"4","2","9","4","9","6","7","2","9","6">>),
           S(<<"0","x","f","f","f","f","f","f","f","f">>),
           S(<<"0","x","1","0","0","0","0","0","0","0","0">>),
           S(<<"0","1","7",".","0","X","1","0">>),
           S(<<"1",".","2",".","3",".","4",".","5">>),
           S(<<"2","5","5",".","2","5","5",".","2","5","5",".","2","5","5">>),
           S(<<"1","a">>),
           S(<<"0","x","1","g">>),
           S(<<"+","1">>),
           S(<<"1",".","2",".","3",".","4","a">>) }

\* Authorities with credentials: text of letters, ':' and '@' in front of
\* the host h.
AuthorityInputs ==
  { p \o t \o S(<<"h", "/">>) :
      p \in {S(<<"h","t","t","p",":","/","/">>), S(<<"f","o","o",":","/","/">>)},
      t \in Strings(Chars(<<"a", ":", "@">>), MaxLen + 1) }
    \cup { S(<<"h","t","t","p",":","/","/","a",":","b","@","c",":","d","@","h","/">>),
           S(<<"h","t","t","p",":","/","/","u","s","e","r","@","/">>),
           S(<<"h","t","t","p",":","/","/","u"," ","<","@","H",":","8","?","q">>) }

\* Hosts of special URLs with one percent-encoded byte, and with one byte
\* that is not a letter.
DomainInputs ==
  { S(<<"h","t","t","p",":","/","/","A">>)
      \o << cPercent, HexDigit(c \div 16), HexDigit(c % 16) >> \o S(<<"b","/">>) :
      c \in ForbiddenHostPoints \cup Chars(<<"A", "b", ".", "-", "1">>) }
    \cup { S(<<"h","t","t","p",":","/","/","A">>) \o << c >> \o S(<<"b","/">>) :
            c \in Chars(<<" ", "%", "[", "]", "-", "Z">>) }
    \cup { S(<<"h","t","t","p",":","/","/","%","4","1","b","/">>),
            S(<<"h","t","t","p",":","/","/","a","%","2","f","b","/">>),
            S(<<"f","i","l","e",":","/","/","A","%","4","2","/","p">>) }

\* The largest number of pieces of a generated IPv6 text.
MaxPieces == 9

RECURSIVE Ipv6Run(_, _)
\* The pieces 'from', 'from + 1', ..., 'to', each one hex digit, with ':'
\* between them.
Ipv6Run(from, to) ==
  IF from > to THEN << >>
  ELSE IF from = to THEN << HexDigit(from) >>
  ELSE << HexDigit(from), cColon >> \o Ipv6Run(from + 1, to)

\* IPv6 texts: n pieces, n pieces with '::' after the first j of them, and
\* malformed and multi-digit texts.
Ipv6Texts ==
  { Ipv6Run(1, n) : n \in 0..MaxPieces }
    \cup { Ipv6Run(1, j) \o << cColon, cColon >> \o Ipv6Run(j + 1, n) :
             n \in 0..MaxPieces, j \in 0..MaxPieces }
    \cup { << cColon >> \o Ipv6Run(1, n) : n \in {0, 1, 8} }
    \cup { Ipv6Run(1, n) \o << cColon >> : n \in {1, 7, 8} }
    \cup { S(<<"1",":",":","2",":",":","3">>),
           S(<<":",":","1",":",":">>),
           S(<<"1",":",":",":","2">>),
           S(<<":",":",":">>),
           S(<<":","1",":",":","2">>),
           S(<<"1",":",":","2",":">>),
           S(<<"1","2","3","4","5",":",":">>),
           S(<<":",":","1","2","3","4","5">>),
           S(<<"1",":","2",":","3",":","4",":","5",":","6",":","7",":","a","b","c","d","e">>),
           S(<<"f","f","f","f",":",":","A","b","c","d",":","1","2">>),
           S(<<"1",":","2",":","3",":","4",":","5",":","6",":","7",":","f","F","f","f">>),
           S(<<":",":","1",".","2",".","3",".","4">>),
           S(<<"1",":",":","1",".","2",".","3">>),
           S(<<"1",":","g",":",":">>) }

\* The text in front of an embedded IPv4 address.
Ipv6Heads ==
  { << >>,
    << cColon, cColon >>,
    Ipv6Run(1, 5) \o << cColon >>,
    Ipv6Run(1, 6) \o << cColon >>,
    Ipv6Run(1, 7) \o << cColon >>,
    Ipv6Run(1, 1) \o << cColon, cColon >>,
    Ipv6Run(1, 5) \o << cColon, cColon >>,
    Ipv6Run(1, 6) \o << cColon, cColon >>,
    S(<<":",":","f","f","f","f",":">>) }

\* Embedded IPv4 addresses, well-formed and malformed.
Ipv4Tails ==
  { a \o << cDot >> \o b \o << cDot >> \o c \o << cDot >> \o d :
      a \in {S(<<"0">>), S(<<"1","9">>)}, b \in {S(<<"0">>), S(<<"1","9">>)},
      c \in {S(<<"0">>), S(<<"1","9">>)}, d \in {S(<<"0">>), S(<<"1","9">>)} }
    \cup { S(<<"2","5","5",".","2","5","5",".","2","5","5",".","2","5","5">>),
           S(<<"1",".","2",".","3",".","4">>),
           S(<<"1",".","2",".","3">>),
           S(<<"1",".","2">>),
           S(<<"1",".","2",".","3",".","4",".","5">>),
           S(<<"0","1",".","2",".","3",".","4">>),
           S(<<"1",".","2",".","3",".","0","4">>),
           S(<<"1",".","0","0",".","3",".","4">>),
           S(<<"2","5","6",".","1",".","1",".","1">>),
           S(<<"1",".","2",".","3",".","2","5","6">>),
           S(<<"1",".","2",".","3",".","1","2","3","4">>),
           S(<<"1",".","2",".","3",".","4",".">>),
           S(<<"1",".","2",".","3",".">>),
           S(<<"1",".",".","3",".","4">>),
           S(<<".","1",".","2",".","3">>),
           S(<<"1","a",".","2",".","3",".","4">>),
           S(<<"a",".","2",".","3",".","4">>),
           S(<<"1",".","2",".","3",".","a">>),
           S(<<"1",".","2",".","3",".","4",":">>),
           S(<<"1",".","2",".","3",".","4",":","1">>),
           S(<<"1","2","3","4","5",".","2",".","3",".","4">>) }

Ipv6Inputs ==
  { S(<<"h","t","t","p",":","/","/","[">>) \o t \o S(<<"]">>) :
      t \in Ipv6Texts \cup {h \o v : h \in Ipv6Heads, v \in Ipv4Tails} }

\* Bytes that the path, the query or the fragment escapes, and bytes that
\* they keep.
EscapeBytes ==
  {1, 31, 127, 128, 200, 255}
    \cup Chars(<<" ", "\"", "<", ">", "backquote", "{", "}", "|", "^", "'", "%",
                 "\\", "a", "Z", "~", "!">>)

\* An input with the byte c in its path, its query and its fragment.
EscapeInput(prefix, c) ==
  prefix \o << cLowerA, c >> \o S(<<"b","/","c","?","d">>) \o << c >>
    \o S(<<"e","#","f">>) \o << c >> \o S(<<"g">>)

EscapeInputs ==
  { EscapeInput(p, c) :
      p \in {S(<<"h","t","t","p",":","/","/","h","/">>), S(<<"f","o","o",":","/">>),
             S(<<"f","o","o",":">>)},
      c \in EscapeBytes }

\* Inputs with bytes that the constructor of the context removes.
WhitespaceInputs ==
  Strings({NUL, HT, LF, 27, cSpace, cLowerA, cColon}, MaxLen)
    \cup { << cSpace, HT >> \o S(<<"h","t","t","p",":","/","/","h","/">>)
             \o << cSpace, cLowerA, LF, cLowerA, CR, cSpace, 31, cSpace >>,
           << 4, 18, VT, FF >> \o S(<<"f","o","o",":","x">>) \o << HT >> \o S(<<"y">>),
           S(<<"f","o","o",":","x","#","y">>) \o << NUL >> }

\* Inputs with a fragment and nothing a parser would report.
CleanFragmentInputs ==
  { S(<<"h","t","t","p",":","/","/","h","/","#","f">>),
    S(<<"h","t","t","p",":","/","/","h","/","p","?","q","#","f">>),
    S(<<"f","o","o",":","/","/","h","/","p","#","f">>) }

Inputs ==
  GenericInputs \cup ScenarioInputs \cup BaseInputs \cup AuthorityInputs
    \cup DomainInputs \cup Ipv6Inputs \cup EscapeInputs \cup WhitespaceInputs
    \cup CleanFragmentInputs
    \cup {S(<<"h","t","t","p",":","/","/">>) \o h : h \in Ipv4Hosts}

\* ------------------------------------------------------------------------
\* The driver loop of basic_parse
\* ------------------------------------------------------------------------

VARIABLES
  ctx,      \* the url_parser_context of the running parse
  status,   \* "running", or how basic_parse returned: "success", "fail"
  mode,     \* what started this parse: "parse", "reparse", "relative", "override"
  prev,     \* the optional record this parse was started from
  origin,   \* the mode of the parse that produced prev
  calls,    \* the number of handler invocations of this parse
  turns     \* the turns of the while loop of this parse: the state and the
            \* position each handler was called at, and what it returned

vars == << ctx, status, mode, prev, origin, calls, turns >>

\* The number of handler invocations a parse of the input of x is followed
\* for.
CallBound(x) == 4 * Len(x.input) + 4

Init ==
  /\ \E input \in Inputs : ctx = NewContext(input, None, None, None)
  /\ status = "running"
  /\ mode = "parse"
  /\ prev = None
  /\ origin = "none"
  /\ calls = 0
  /\ turns = << >>

\* One turn of the while loop: the handler has returned r.
Drive(r) ==
  /\ calls <= CallBound(ctx)
  /\ calls' = calls + 1
  /\ turns' = Append(turns, [state |-> ctx.state, it |-> ctx.it, action |-> r.action])
  /\ UNCHANGED << mode, prev, origin >>
  /\ IF r.action = "fail" THEN ctx' = r.ctx /\ status' = "fail"
     ELSE IF r.action = "success" THEN ctx' = r.ctx /\ status' = "success"
     ELSE IF r.action = "continue" THEN ctx' = r.ctx /\ status' = "running"
     ELSE IF is_eof(r.ctx) THEN ctx' = r.ctx /\ status' = "success"
     ELSE ctx' = increment(r.ctx) /\ status' = "running"

Running(states) == status = "running" /\ ctx.state \in states

SchemeStart == Running({"scheme_start"}) /\ Drive(parse_scheme_start(ctx))
Scheme == Running({"scheme"}) /\ Drive(parse_scheme(ctx))
NoScheme == Running({"no_scheme"}) /\ Drive(parse_no_scheme(ctx))
SpecialRelativeOrAuthority ==
  Running({"special_relative_or_authority"})
    /\ Drive(parse_special_relative_or_authority(ctx))
PathOrAuthority == Running({"path_or_authority"}) /\ Drive(parse_path_or_authority(ctx))
Relative == Running({"relative"}) /\ Drive(parse_relative(ctx))
RelativeSlash == Running({"relative_slash"}) /\ Drive(parse_relative_slash(ctx))
SpecialAuthoritySlashes ==
  Running({"special_authority_slashes"}) /\ Drive(parse_special_authority_slashes(ctx))
SpecialAuthorityIgnoreSlashes ==
  Running({"special_authority_ignore_slashes"})
    /\ Drive(parse_special_authority_ignore_slashes(ctx))
Authority == Running({"authority"}) /\ Drive(parse_authority(ctx))
Hostname == Running({"host", "hostname"}) /\ Drive(parse_hostname(ctx))
Port == Running({"port"}) /\ Drive(parse_port(ctx))
File == Running({"file"}) /\ Drive(parse_file(ctx))
FileSlash == Running({"file_slash"}) /\ Drive(parse_file_slash(ctx))
FileHost == Running({"file_host"}) /\ Drive(parse_file_host(ctx))
PathStart == Running({"path_start"}) /\ Drive(parse_path_start(ctx))
Path == Running({"path"}) /\ Drive(parse_path(ctx))
CannotBeABaseUrlPath ==
  Running({"cannot_be_a_base_url_path"}) /\ Drive(parse_cannot_be_a_base_url(ctx))
Query == Running({"query"}) /\ Drive(parse_query(ctx))
Fragment == Running({"fragment"}) /\ Drive(parse_fragment(ctx))

\* parse(serialize(r)) for the record r a parse has returned.
Reparse ==
  /\ status = "success"
  /\ mode \in {"parse", "relative"}
  /\ ctx' = NewContext(Serialize(ctx.url), None, None, None)
  /\ status' = "running"
  /\ mode' = "reparse"
  /\ prev' = Some(ctx.url)
  /\ origin' = mode
  /\ calls' = 0
  /\ turns' = << >>

\* parse(input, base) with the record of a parse as the base.
RelativeParse ==
  /\ status = "success"
  /\ mode = "parse"
  /\ ctx.input \in BaseInputs
  /\ \E input \in RelativeInputs :
       ctx' = NewContext(input, Some(ctx.url), None, None)
  /\ status' = "running"
  /\ mode' = "relative"
  /\ prev' = Some(ctx.url)
  /\ origin' = mode
  /\ calls' = 0
  /\ turns' = << >>

\* The records a setter hands to the parser: the host, port and path
\* setters leave a cannot-be-a-base URL alone, and the port setter also a
\* URL without a host and a file URL.
CanOverride(state, url) ==
  /\ state \in {"host", "hostname", "path_start"} => ~url.cannot_be_a_base_url
  /\ state = "port" =>
       /\ ~url.cannot_be_a_base_url
       /\ Has(url.host) /\ Val(url.host) # EmptyStr
       /\ url.scheme # FileScheme

\* basic_parse(input, nullopt, url, state_override) on the record of a
\* parse, as the setters call it.
OverrideParse ==
  /\ status = "success"
  /\ mode = "parse"
  /\ ctx.input \in BaseInputs
  /\ \E input \in OverrideInputs, state \in OverrideStates :
       /\ CanOverride(state, ctx.url)
       /\ ctx' = NewContext(input, None, Some(ctx.url), Some(state))
  /\ status' = "running"
  /\ mode' = "override"
  /\ prev' = Some(ctx.url)
  /\ origin' = mode
  /\ calls' = 0
  /\ turns' = << >>

Next ==
  \/ SchemeStart \/ Scheme \/ NoScheme \/ SpecialRelativeOrAuthority
  \/ PathOrAuthority \/ Relative \/ RelativeSlash \/ SpecialAuthoritySlashes
  \/ SpecialAuthorityIgnoreSlashes \/ Authority \/ Hostname \/ Port \/ File
  \/ FileSlash \/ FileHost \/ PathStart \/ Path \/ CannotBeABaseUrlPath
  \/ Query \/ Fragment
  \/ Reparse \/ RelativeParse \/ OverrideParse

Spec == Init /\ [][Next]_vars

\* ------------------------------------------------------------------------
\* The gen_delim_chars unit test
\* ------------------------------------------------------------------------

\* RFC 3986 gen-delims without '@'.
gen_delim_chars_without_at(c) == c \in Chars(<<":", "/", "?", "#", "[", "]">>)

\* boost/url/rfc/gen_delim_chars.hpp: the character set of RFC 3986
\* gen-delims = ":" / "/" / "?" / "#" / "[" / "]" / "@".
gen_delim_chars(c) == c \in Chars(<<":", "/", "?", "#", "[", "]", "@">>)

\* The string the test hands to test_char_set.
GenDelimExpected == S(<<":", "/", "?", "#", "[", "]", "@">>)

\* test_char_set(cs, s) as it starts: p is the position in s of the first
\* loop, i the character value of the second loop, n the number of
\* characters the set has accepted in the second loop, failures the number
\* of failed BOOST_TEST checks.
CharSetInit ==
  /\ ctx = [state |-> "members", s |-> GenDelimExpected,
            p |-> 1, i |-> 0, n |-> 0, failures |-> 0]
  /\ status = "running"
  /\ mode = "test"
  /\ prev = None
  /\ origin = "none"
  /\ calls = 0
  /\ turns = << >>

\* The first loop of test_char_set: each character of s is in the set.
TestMember ==
  /\ mode = "test" /\ status = "running" /\ ctx.state = "members"
  /\ IF ctx.p > Len(ctx.s)
       THEN ctx' = [ctx EXCEPT !.state = "count"]
       ELSE ctx' = [ctx EXCEPT
                      !.p = ctx.p + 1,
                      !.failures = IF gen_delim_chars(ctx.s[ctx.p])
                                     THEN ctx.failures ELSE ctx.failures + 1]
  /\ calls' = calls + 1
  /\ UNCHANGED << status, mode, prev, origin, turns >>

\* The second loop of test_char_set: the characters of the set are counted
\* over every value of a char.
CountChar ==
  /\ mode = "test" /\ status = "running" /\ ctx.state = "count"
  /\ ctx.i < 256
  /\ ctx' = [ctx EXCEPT
               !.i = ctx.i + 1,
               !.n = IF gen_delim_chars(ctx.i) THEN ctx.n + 1 ELSE ctx.n]
  /\ calls' = calls + 1
  /\ UNCHANGED << status, mode, prev, origin, turns >>

\* After the second loop: the count is the length of s, and the test
\* returns.
CompareCount ==
  /\ mode = "test" /\ status = "running" /\ ctx.state = "count"
  /\ ctx.i = 256
  /\ ctx' = [ctx EXCEPT
               !.state = "done",
               !.failures = IF ctx.n = Len(ctx.s)
                              THEN ctx.failures ELSE ctx.failures + 1]
  /\ status' = IF ctx'.failures = 0 THEN "pass" ELSE "fail"
  /\ calls' = calls + 1
  /\ UNCHANGED << mode, prev, origin, turns >>

CharSetNext == TestMember \/ CountChar \/ CompareCount

CharSetSpec == CharSetInit /\ [][CharSetNext]_vars

\* ------------------------------------------------------------------------
\* Properties
\* ------------------------------------------------------------------------

Done == status # "running"

NoOverride == ~Has(ctx.state_override)

\* C1: Round-trip.  When a parse with no base has returned r, then
\* parse(serialize(r)) with no base succeeds and returns a record equal to
\* r in every component.
RoundTrip ==
  (mode = "reparse" /\ origin = "parse" /\ Done)
    => (status = "success" /\ ctx.url = Val(prev))

\* C2: Termination.  The driver loop ends after at most 4*len(input)+4
\* handler invocations, whatever the input, the base and the state override.
Termination == calls <= 4 * Len(ctx.input) + 4

\* A parse with credentials, whose authority was read twice, has ended.
TerminationWitness ==
  /\ status = "success"
  /\ ctx.at_flag
  /\ calls > Len(ctx.input) + 2

\* C3: Port normalisation.  In every record a successful parse returns, a
\* port that is present is below 65536 and is not the default port of the
\* record's scheme.
PortNormalised ==
  (status = "success" /\ Has(ctx.url.port))
    => /\ Val(ctx.url.port) < 65536
       /\ ~is_default_port(ctx.url.scheme, Val(ctx.url.port))

\* C4: Special URLs have a host.  When a parse without state override
\* succeeds and the scheme is special, the host is present, or the scheme
\* is file and the host is the empty string.
SpecialHasHost ==
  (status = "success" /\ NoOverride /\ url_is_special(ctx.url))
    => \/ Has(ctx.url.host)
       \/ (ctx.url.scheme = FileScheme /\ ctx.url.host = Some(EmptyStr))

\* C5: Cannot-be-a-base invariant.  In every reachable parser state and
\* every returned record, cannot_be_a_base_url implies that the path has
\* exactly one element and the host is absent.
CannotBeABase ==
  ctx.url.cannot_be_a_base_url
    => (Len(ctx.url.path) = 1 /\ ~Has(ctx.url.host))

\* C6: File URLs carry no port and no credentials.  Every record a
\* successful parse without state override returns with scheme "file" has
\* no port and an empty username and password, whatever the base.
FileNoPortNoCredentials ==
  (status = "success" /\ NoOverride /\ ctx.url.scheme = FileScheme)
    => /\ ~Has(ctx.url.port)
       /\ ctx.url.username = EmptyStr
       /\ ctx.url.password = EmptyStr

\* A file URL given relative to a base that is not a file URL and that has
\* credentials and a port.
FileNoPortNoCredentialsWitness ==
  /\ status = "success"
  /\ mode = "relative"
  /\ ctx.url.scheme = FileScheme
  /\ Val(ctx.base).scheme # FileScheme
  /\ Has(Val(ctx.base).port)
  /\ Val(ctx.base).username # EmptyStr

\* C7: Scheme casing.  On every successful parse without state override
\* the scheme is empty, or starts with a lowercase letter and contains only
\* lowercase letters, digits, '+', '-' and '.'.
SchemeCasing ==
  (status = "success" /\ NoOverride)
    => \/ ctx.url.scheme = EmptyStr
       \/ /\ islower(ctx.url.scheme[1])
          /\ \A i \in 1..Len(ctx.url.scheme) :
               \/ islower(ctx.url.scheme[i])
               \/ isdigit(ctx.url.scheme[i])
               \/ ctx.url.scheme[i] \in SchemeExtra

\* An input whose scheme is written with uppercase letters was accepted.
SchemeCasingWitness ==
  /\ status = "success"
  /\ mode = "parse"
  /\ Len(ctx.url.scheme) >= 2
  /\ Len(ctx.input) > Len(ctx.url.scheme)
  /\ isupper(ctx.input[1])
  /\ isupper(ctx.input[2])
  /\ ctx.input[Len(ctx.url.scheme) + 1] = cColon

DotSegmentsInput == S(<<".",".","/","/",".","/","%","2","e","/","a">>)
DotSegmentsBase == S(<<"h","t","t","p",":","/","/","a","/","b","/","c","/","d">>)

\* The parse of '..//./%2e/a' with the base 'http://a/b/c/d' has ended.
DotSegmentsDone ==
  /\ Done
  /\ mode = "relative"
  /\ ctx.input = DotSegmentsInput
  /\ Serialize(Val(prev)) = DotSegmentsBase

\* C8 as stated: '..//./%2e/a' with base 'http://a/b/c/d' gives path = [a]
\* and serialises as 'http://a/a'.
DotSegmentsOriginal ==
  DotSegmentsDone
    => /\ status = "success"
       /\ ctx.url.path = << S(<<"a">>) >>
       /\ Serialize(ctx.url) = S(<<"h","t","t","p",":","/","/","a","/","a">>)

\* C8 as amended: '..//./%2e/a' with base 'http://a/b/c/d' gives
\* path = [b, '', a] and serialises as 'http://a/b//a': the relative state
\* drops 'd', the double-dot pops 'c', the empty segment between the two
\* slashes is kept, and the single-dot and '%2e' segments are skipped.
DotSegments ==
  DotSegmentsDone
    => /\ status = "success"
       /\ ctx.url.path = << S(<<"b">>), EmptyStr, S(<<"a">>) >>
       /\ Serialize(ctx.url)
            = S(<<"h","t","t","p",":","/","/","a","/","b","/","/","a">>)

DotSegmentsWitness == DotSegmentsDone /\ status = "success"

OpaqueHostInput ==
  S(<<"f","o","o",":","/","/","u","s","e","r",":","p","%","4","0","s","s","@","H",
      "/","p","?","q","#","f">>)

\* C9: Non-special URLs get an opaque host.  When the host state of a URL
\* that is not special stores the host, it is the opaque host of the buffer
\* (case kept, not percent-decoded); and 'foo://user:p%40ss@H/p?q#f' parses
\* to scheme=foo, username=user, password=p%40ss, host=H, path=[p], query=q,
\* fragment=f.
OpaqueHost ==
  /\ [][(/\ status = "running"
         /\ ctx.state = "host"
         /\ ~url_is_special(ctx.url)
         /\ ctx'.url.host # ctx.url.host)
          => ctx'.url.host = parse_opaque_host(ctx.buffer)]_vars
  /\ []((Done /\ mode = "parse" /\ ctx.input = OpaqueHostInput)
          => /\ status = "success"
             /\ ctx.url.scheme = S(<<"f","o","o">>)
             /\ ctx.url.username = S(<<"u","s","e","r">>)
             /\ ctx.url.password = S(<<"p","%","4","0","s","s">>)
             /\ ctx.url.host = Some(S(<<"H">>))
             /\ ctx.url.path = << S(<<"p">>) >>
             /\ ctx.url.query = Some(S(<<"q">>))
             /\ ctx.url.fragment = Some(S(<<"f">>)))

\* The host state reads ':' outside square brackets with an empty buffer.
HostColonEmpty ==
  /\ status = "running"
  /\ ctx.state \in {"host", "hostname"}
  /\ Cur(ctx) = cColon
  /\ ~ctx.square_braces_flag
  /\ ctx.buffer = EmptyStr

\* The host state of a special URL reads EOF, '/', '?', '#' or '\' with an
\* empty buffer.
HostEndEmpty ==
  /\ status = "running"
  /\ ctx.state \in {"host", "hostname"}
  /\ AuthorityEnd(ctx)
  /\ url_is_special(ctx.url)
  /\ ctx.buffer = EmptyStr

\* With a state override on a file URL the host state hands the byte over
\* to the file_host state.
HostDiverted == Has(ctx.state_override) /\ ctx.url.scheme = FileScheme

EmptyHostInput == S(<<"h","t","t","p",":","/","/",":","8","0","8","0","/">>)

\* What C10 says in both its readings: ':' with an empty buffer fails for
\* any scheme, 'http://:8080/' fails, and no successful special non-file
\* record has an empty host.
EmptyHostCommon ==
  /\ [][(HostColonEmpty /\ ~HostDiverted) => status' = "fail"]_vars
  /\ []((/\ Done
         /\ HostDiverted
         /\ Val(ctx.state_override) \in {"host", "hostname"}
         /\ ctx.input # EmptyStr
         /\ ctx.input[1] = cColon)
          => status = "fail")
  /\ [][(HostEndEmpty /\ ~HostDiverted) => status' = "fail"]_vars
  /\ []((Done /\ mode = "parse" /\ ctx.input = EmptyHostInput) => status = "fail")
  /\ []((status = "success" /\ url_is_special(ctx.url) /\ ctx.url.scheme # FileScheme)
          => (Has(ctx.url.host) /\ Val(ctx.url.host) # EmptyStr))

\* C10 as stated: in the host state ':' with an empty buffer makes the
\* parse fail for any scheme, and EOF, '/', '?', '#' (or '\') with an empty
\* buffer makes it fail whenever the scheme is special - also for the parse
\* that a state override starts in the host state of a file URL.
EmptyHostFailsOriginal ==
  /\ EmptyHostCommon
  /\ []((/\ Done
         /\ HostDiverted
         /\ Val(ctx.state_override) \in {"host", "hostname"}
         /\ (ctx.input = EmptyStr
               \/ ctx.input[1] \in {cSlash, cQuestion, cHash, cBackslash}))
          => status = "fail")

\* C10 as amended: in the host state ':' (outside square brackets) with an
\* empty buffer makes the parse fail for any scheme, and EOF, '/', '?', '#'
\* (or '\') with an empty buffer makes it fail when the scheme is special,
\* except under a state override on a file URL, where the host state hands
\* over to the file_host state, which accepts an empty host; 'http://:8080/'
\* fails and no successful special non-file record has an empty host.
EmptyHostFails ==
  /\ EmptyHostCommon
  /\ []((/\ Done
         /\ HostDiverted
         /\ Val(ctx.state_override) \in {"host", "hostname"}
         /\ ctx.input = EmptyStr)
          => (status = "success" /\ ctx.url.host = Some(EmptyStr)))

\* 'http://:8080/' has failed in the host state, at the ':' and with an
\* empty buffer.
EmptyHostFailsWitness ==
  /\ status = "fail"
  /\ ctx.input = EmptyHostInput
  /\ ctx.state = "host"
  /\ Cur(ctx) = cColon
  /\ ctx.buffer = EmptyStr

\* The input begins with a scheme followed by ':': an ASCII letter, then
\* letters, digits, '+', '-' or '.', then the ':'.
BeginsWithScheme(input) ==
  \E i \in 2..Len(input) :
    /\ input[i] = cColon
    /\ isalpha(input[1])
    /\ \A j \in 2..(i - 1) : isalnum(input[j]) \/ input[j] \in SchemeExtra

FirstByteIsHash == ctx.input # EmptyStr /\ ctx.input[1] = cHash

CannotBeABaseBase == Has(ctx.base) /\ Val(ctx.base).cannot_be_a_base_url

\* C11: Relative references need a usable base.  When the sanitised input
\* does not begin with a scheme followed by ':', the parse fails if there is
\* no base; it fails if the base is a cannot-be-a-base URL unless the first
\* byte of the input is '#'; and in that case the no_scheme state gives the
\* record the scheme, path and query of the base, an empty fragment and
\* cannot_be_a_base_url = true, and goes on in the fragment state.
RelativeNeedsBase ==
  /\ []((Done /\ NoOverride /\ ~BeginsWithScheme(ctx.input) /\ ~Has(ctx.base))
          => status = "fail")
  /\ []((/\ Done /\ NoOverride /\ ~BeginsWithScheme(ctx.input)
         /\ CannotBeABaseBase /\ ~FirstByteIsHash)
          => status = "fail")
  /\ [][(Running({"no_scheme"}) /\ CannotBeABaseBase /\ FirstByteIsHash)
          => /\ status' = "running"
             /\ ctx'.state = "fragment"
             /\ ctx'.it = 2
             /\ ctx'.url.scheme = Val(ctx.base).scheme
             /\ ctx'.url.path = Val(ctx.base).path
             /\ ctx'.url.query = Val(ctx.base).query
             /\ ctx'.url.fragment = Some(EmptyStr)
             /\ ctx'.url.cannot_be_a_base_url]_vars
  /\ []((/\ status = "success" /\ NoOverride /\ ~BeginsWithScheme(ctx.input)
         /\ CannotBeABaseBase)
          => /\ ctx.url.scheme = Val(ctx.base).scheme
             /\ ctx.url.path = Val(ctx.base).path
             /\ ctx.url.query = Val(ctx.base).query
             /\ Has(ctx.url.fragment)
             /\ ctx.url.cannot_be_a_base_url)

\* An input without a scheme has failed against a base that cannot be a
\* base, in the no_scheme state and at a first byte other than '#'.
RelativeNeedsBaseWitness ==
  /\ status = "fail"
  /\ ctx.state = "no_scheme"
  /\ CannotBeABaseBase
  /\ ctx.input # EmptyStr
  /\ ~FirstByteIsHash
  /\ ~BeginsWithScheme(ctx.input)

\* The port state stands at a byte that ends the port: EOF, '/', '?', '#',
\* '\' for a special scheme, or any byte that is not a digit when a state
\* override is given.
PortTerminator ==
  /\ Running({"port"})
  /\ ~isdigit(Cur(ctx))
  /\ (AuthorityEnd(ctx) \/ Has(ctx.state_override))

MaxPortInput == S(<<"h","t","t","p",":","/","/","h",":","6","5","5","3","5","/">>)

\* C12: Port range.  In the port state, at a terminator and with a
\* non-empty digit buffer, the parse fails if the decimal value of the
\* buffer is 2^16 or more and accepts every value below 2^16, 65535
\* included; a byte that is neither a digit nor a terminator makes the
\* parse fail.
PortRange ==
  /\ [][(PortTerminator /\ ctx.buffer # EmptyStr)
          => (status' = "fail" <=> Len(Digits(ctx.buffer, 10, << >>)) > 2)]_vars
  /\ [][(Running({"port"}) /\ ~isdigit(Cur(ctx)) /\ ~PortTerminator)
          => status' = "fail"]_vars
  /\ []((Done /\ mode = "parse" /\ ctx.input = MaxPortInput)
          => (status = "success" /\ ctx.url.port = Some(65535)))

FragmentBase == S(<<"h","t","t","p",":","/","/","a","/","b","/","c">>)

FragmentInput == S(<<"#","f","r","a","g">>)

DriveInput == S(<<"f","i","l","e",":","/","/","/","C","|","/","W","I","N","D","O","W","S">>)

DrivePath == << S(<<"C",":">>), S(<<"W","I","N","D","O","W","S">>) >>

\* The path state ends the first segment of a file URL, and the segment
\* is a Windows drive letter written with '|'.
DriveSegmentEnds ==
  /\ Running({"path"})
  /\ \/ is_eof(ctx)
     \/ Cur(ctx) \in {cSlash, cBackslash}
     \/ (NoOverride /\ Cur(ctx) \in {cQuestion, cHash})
  /\ ctx.url.scheme = FileScheme
  /\ ctx.url.path = << >>
  /\ Len(ctx.buffer) = 2
  /\ isalpha(ctx.buffer[1])
  /\ ctx.buffer[2] = cPipe

\* C14: Windows drive letter normalisation.  'file:///C|/WINDOWS' parses to
\* the path [C:, WINDOWS] with the empty host and serialises as
\* 'file:///C:/WINDOWS'; in general, when the path state completes the
\* first path segment of a file URL and it is a Windows drive letter
\* written with '|', the segment is stored with ':' and the host is the
\* empty string afterwards.
DriveLetter ==
  /\ []((Done /\ mode = "parse" /\ ctx.input = DriveInput)
          => /\ status = "success"
             /\ ctx.url.path = DrivePath
             /\ ctx.url.host = Some(EmptyStr)
             /\ Serialize(ctx.url)
                  = S(<<"f","i","l","e",":","/","/","/","C",":","/",
                        "W","I","N","D","O","W","S">>))
  /\ [][DriveSegmentEnds
          => /\ ctx'.url.path = << << ctx.buffer[1], cColon >> >>
             /\ ctx'.url.host = Some(EmptyStr)]_vars

\* A reference 'a|' has been resolved against a file base that has a host:
\* the record has the segment 'a:' and the empty host.
DriveLetterWitness ==
  /\ status = "success"
  /\ mode = "relative"
  /\ Has(Val(ctx.base).host)
  /\ Val(Val(ctx.base).host) # EmptyStr
  /\ ctx.input = S(<<"a","|">>)
  /\ ctx.url.path = << S(<<"a",":">>) >>
  /\ ctx.url.host = Some(EmptyStr)

Ipv6Input ==
  S(<<"h","t","t","p",":","/","/","[","2","0","0","1",":","d","b","8",":",":","1","]",
      ":","8","0","/">>)

Ipv6Text == S(<<"2","0","0","1",":","d","b","8",":",":","1">>)

\* The address 2001:db8:0:0:0:0:0:1.
Ipv6Address ==
  [i \in 0..7 |->
     IF i = 0 THEN 8193 ELSE IF i = 1 THEN 3512 ELSE IF i = 7 THEN 1 ELSE 0]

\* The host state proper: a state override on a file URL hands the byte
\* to the file_host state instead.
InHostState == Running({"host", "hostname"}) /\ ~HostDiverted

\* C15: IPv6 bracket scoping.  In the host state a ':' between '[' and ']'
\* is appended to the buffer and does not start the port;
\* 'http://[2001:db8::1]:80/' succeeds with the host equal to the IPv6
\* address 2001:db8:0:0:0:0:0:1 (written '2001:db8::1'), the port absent
\* and the path ['']; an unclosed '[' makes the parse fail.
Ipv6Brackets ==
  /\ [][(InHostState /\ ctx.square_braces_flag /\ Cur(ctx) = cColon)
          => /\ status' = "running"
             /\ ctx'.state = ctx.state
             /\ ctx'.buffer = Append(ctx.buffer, cColon)
             /\ ctx'.url = ctx.url]_vars
  /\ []((Done /\ mode = "parse" /\ ctx.input = Ipv6Input)
          => /\ status = "success"
             /\ parse_ipv6_address(Ipv6Text) = Some(Ipv6Address)
             /\ ctx.url.host = Some(ipv6_to_string(Ipv6Address))
             /\ ipv6_to_string(Ipv6Address)
                  = << cLBracket >> \o Ipv6Text \o << cRBracket >>
             /\ ctx.url.port = None
             /\ ctx.url.path = << EmptyStr >>)
  /\ [][(InHostState /\ ctx.square_braces_flag /\ AuthorityEnd(ctx))
          => status' = "fail"]_vars
  /\ [](status = "success" => ~ctx.square_braces_flag)

\* 'foo://[a:b/c' has failed in the host state: the buffer holds the ':'
\* that came after the '[', and no ']' has closed it.
Ipv6BracketsWitness ==
  /\ status = "fail"
  /\ ctx.input = S(<<"f","o","o",":","/","/","[","a",":","b","/","c">>)
  /\ ctx.state = "host"
  /\ ctx.square_braces_flag
  /\ ctx.buffer = S(<<"[","a",":","b">>)

\* The reading of one dot-separated part of a host: radix 16 after 0x or
\* 0X, radix 8 after a leading 0, radix 10 otherwise.
PartIsHex(part) ==
  Len(part) >= 2 /\ part[1] = cZero /\ tolower(part[2]) = cLowerX

PartRadix(part) ==
  IF PartIsHex(part) THEN 16
  ELSE IF Len(part) >= 2 /\ part[1] = cZero THEN 8
  ELSE 10

PartDigits(part) ==
  IF PartIsHex(part) THEN SubSeq(part, 3, Len(part))
  ELSE IF Len(part) >= 2 /\ part[1] = cZero THEN Tail(part)
  ELSE part

\* The part is a number: it is not empty and all its digits are digits of
\* its radix.
IsNumericPart(part) ==
  /\ part # << >>
  /\ \A i \in 1..Len(PartDigits(part)) :
       IsDigitOf(PartDigits(part)[i], PartRadix(part))

\* The parts of the host buffer and their numbers (base-256 digits, least
\* significant first).
HostParts == SplitDots(ctx.buffer, << << >> >>)

HostNumbers ==
  [i \in 1..Len(HostParts) |->
     Digits(PartDigits(HostParts[i]), PartRadix(HostParts[i]), << >>)]

\* The host state is about to parse a buffer of at most four numeric
\* parts.
NumericHostStep ==
  /\ InHostState
  /\ (Cur(ctx) = cColon /\ ~ctx.square_braces_flag) \/ AuthorityEnd(ctx)
  /\ Len(HostParts) <= 4
  /\ \A i \in 1..Len(HostParts) : IsNumericPart(HostParts[i])

RECURSIVE FoldedUpTo(_)
\* numbers[n-1] plus the sum of numbers[i] * 256^(3-i) over the first k
\* numbers (the numbers counted from 0 as in the claim).
FoldedUpTo(k) ==
  IF k = 0 THEN HostNumbers[Len(HostParts)]
  ELSE AddULong(FoldedUpTo(k - 1), [i \in 1..(4 - k) |-> 0] \o HostNumbers[k], 0)

FoldedHost == Some(ipv4_to_string(StripZeros(FoldedUpTo(Len(HostParts) - 1))))

NonLastExceeds255 == \E i \in 1..(Len(HostParts) - 1) : Len(HostNumbers[i]) > 1

\* The last number is 256^(5-n) or more.
LastAtLeastLimit == Len(HostNumbers[Len(HostParts)]) > 5 - Len(HostParts)

\* The last number is 256^(5-n) exactly.
LastIsLimit ==
  HostNumbers[Len(HostParts)] = [i \in 1..(5 - Len(HostParts)) |-> 0] \o << 1 >>

Ipv4FoldExample ==
  (Done /\ mode = "parse"
     /\ ctx.input = S(<<"h","t","t","p",":","/","/","0","x","7","f",".","1","/">>))
    => /\ status = "success"
       /\ ctx.url.host = Some(S(<<"1","2","7",".","0",".","0",".","1">>))

HostDomain == domain_to_ascii(pct_decode(ctx.buffer))

\* The host state is about to parse a buffer which parse_ipv4_address
\* takes for a numeric address.
AddressHostStep ==
  /\ InHostState
  /\ (Cur(ctx) = cColon /\ ~ctx.square_braces_flag) \/ AuthorityEnd(ctx)
  /\ ctx.buffer # EmptyStr
  /\ ctx.buffer[1] # cLBracket
  /\ \A i \in 1..Len(HostDomain) : ~is_forbidden_host_point(HostDomain[i])
  /\ Has(Ipv4Numbers(HostDomain))

\* The value of the address parse_ipv4_address has computed.
AddressValue == Ipv4Fold(Val(Ipv4Numbers(HostDomain)))

RECURSIVE DecimalValue(_)
DecimalValue(text) ==
  IF text = << >> THEN 0
  ELSE 10 * DecimalValue(SubSeq(text, 1, Len(text) - 1)) + (text[Len(text)] - cZero)

\* A decimal number from 0 to 255 without leading zeros.
IsCanonicalByte(text) ==
  /\ Len(text) \in 1..3
  /\ \A i \in 1..Len(text) : isdigit(text[i])
  /\ Len(text) > 1 => text[1] # cZero
  /\ DecimalValue(text) <= 255

\* The text is four dotted canonical bytes that spell the value, most
\* significant byte first.
IsDottedQuad(text, value) ==
  LET quad == SplitDots(text, << << >> >>)
  IN  /\ Len(quad) = 4
      /\ \A k \in 1..4 :
           /\ IsCanonicalByte(quad[k])
           /\ DecimalValue(quad[k])
                = (IF 5 - k <= Len(value) THEN value[5 - k] ELSE 0)

\* C17: IPv4 canonical form.  Whenever parse_ipv4_address produces an
\* address, its value lies in 0..2^32-1 and the host is exactly four dotted
\* decimal numbers, each in 0..255 and without leading zeros.
Ipv4Canonical ==
  [][(AddressHostStep /\ status' # "fail")
      => /\ Len(AddressValue) <= 4
         /\ Has(ctx'.url.host)
         /\ IsDottedQuad(Val(ctx'.url.host), AddressValue)]_vars

\* 'http://0xffffffff' has been parsed: the largest address, written
\* 255.255.255.255.
Ipv4CanonicalWitness ==
  /\ status = "success"
  /\ mode = "parse"
  /\ ctx.input = S(<<"h","t","t","p",":","/","/","0","x","f","f","f","f","f","f","f","f">>)
  /\ ctx.url.host
       = Some(S(<<"2","5","5",".","2","5","5",".","2","5","5",".","2","5","5">>))

\* The positions of the input before its first '?' or '#' that hold '\'.
Backslashes(input) ==
  {i \in 1..Len(input) :
     /\ input[i] = cBackslash
     /\ \A j \in 1..(i - 1) : input[j] \notin {cQuestion, cHash}}

\* The input with '/' at the given positions.
WithSlashes(input, positions) ==
  [i \in 1..Len(input) |-> IF i \in positions THEN cSlash ELSE input[i]]

\* A parse without state override has returned, the scheme of its record
\* is special and its input has a '\' before the first '?' or '#'.
BackslashParseDone ==
  /\ Done
  /\ mode \in {"parse", "relative"}
  /\ url_is_special(ctx.url)
  /\ Backslashes(ctx.input) # {}

\* The parse of every input that has '/' for some of the '\' returns the
\* same way and with the same record.
SameAsSlashed ==
  \A positions \in SUBSET Backslashes(ctx.input) :
    LET slashed == basic_parse(WithSlashes(ctx.input, positions), ctx.base,
                               None, None)
    IN  /\ slashed.status = status
        /\ slashed.url = ctx.url

\* C18 as stated: for an input whose resulting scheme is special,
\* replacing any '\' that occurs before the first '?' or '#' by '/' gives
\* the same outcome and the same record in every field; the form with '\'
\* also sets validation_error.
BackslashEqualsSlashOriginal ==
  BackslashParseDone => (SameAsSlashed /\ ctx.validation_error)

\* C18 as amended: for an input whose resulting scheme is special,
\* replacing any '\' that occurs before the first '?' or '#' by '/' gives
\* the same outcome and the same record in every field; a successful parse
\* of the form with '\' has also set validation_error.
BackslashEqualsSlash ==
  BackslashParseDone
    => (SameAsSlashed /\ (status = "success" => ctx.validation_error))

\* 'http:\\a' has been parsed like 'http://a', to the host a.
BackslashEqualsSlashWitness ==
  /\ status = "success"
  /\ mode = "parse"
  /\ ctx.input = S(<<"h","t","t","p",":","\\","\\","a">>)
  /\ ctx.url.host = Some(S(<<"a">>))
  /\ ctx.validation_error

\* C19: Idempotent re-parse.  For every record r that a successful parse
\* has returned, parse(serialize(r)) with no base succeeds, and the
\* serialisation of the record it returns is serialize(r) again.
IdempotentReparse ==
  (mode = "reparse" /\ Done)
    => /\ status = "success"
       /\ Serialize(ctx.url) = Serialize(Val(prev))

\* The input without the ':' that may end it.
HostOfInput ==
  IF ctx.input # EmptyStr /\ ctx.input[Len(ctx.input)] = cColon
    THEN SubSeq(ctx.input, 1, Len(ctx.input) - 1)
    ELSE ctx.input

\* A parse with state_override = hostname has returned, and its input is a
\* valid host of letters, digits and dots, ended by EOF or by ':' (for a
\* file record by EOF: the file_host state takes ':' for a byte of the
\* host).
HostnameOverrideDone ==
  /\ Done
  /\ mode = "override"
  /\ ctx.state_override = Some("hostname")
  /\ ctx.url.scheme = FileScheme => HostOfInput = ctx.input
  /\ HostOfInput # EmptyStr
  /\ \A i \in 1..Len(HostOfInput) :
       isalnum(HostOfInput[i]) \/ HostOfInput[i] = cDot
  /\ Has(parse_host(HostOfInput, FALSE))

\* C20: State override touches one component.  basic_parse with
\* state_override = hostname, a supplied valid record and an input that is
\* a valid host succeeds, and the record it returns differs from the
\* supplied one in the host only: scheme, username, password, port, path,
\* query, fragment and cannot_be_a_base_url are unchanged, also when the
\* host is ended by EOF and not by ':'.
HostnameOverrideFrame ==
  HostnameOverrideDone
    => /\ status = "success"
       /\ ctx.url = [Val(prev) EXCEPT !.host = ctx.url.host]

\* The seven characters ':', '/', '?', '#', '[', ']', '@'.
SevenDelims == {58, 47, 63, 35, 91, 93, 64}

AuthorityPrefixed ==
  \/ StartsWithFrom(ctx.input, 1, S(<<"h","t","t","p",":","/","/">>), 1)
  \/ StartsWithFrom(ctx.input, 1, S(<<"f","o","o",":","/","/">>), 1)

InputIsSpecial == ctx.input # EmptyStr /\ ctx.input[1] = Ord["h"]

\* The position of the first byte of the authority: after "foo://", and
\* after "http://" and the slashes and backslashes that follow it.
AuthorityFirst ==
  IF InputIsSpecial
    THEN CHOOSE i \in 8..(Len(ctx.input) + 1) :
           /\ i <= Len(ctx.input) => ctx.input[i] \notin {cSlash, cBackslash}
           /\ \A j \in 8..(i - 1) : ctx.input[j] \in {cSlash, cBackslash}
    ELSE 7

\* The position after the last byte of the authority.
AuthorityLast ==
  LET ends == {cSlash, cQuestion, cHash}
                \cup (IF InputIsSpecial THEN {cBackslash} ELSE {})
  IN  CHOOSE i \in AuthorityFirst..(Len(ctx.input) + 1) :
        /\ i <= Len(ctx.input) => ctx.input[i] \in ends
        /\ \A j \in AuthorityFirst..(i - 1) : ctx.input[j] \notin ends

AtPositions ==
  {i \in AuthorityFirst..(AuthorityLast - 1) : ctx.input[i] = cAt}

\* The position of the last '@' of the authority.
LastAt == CHOOSE i \in AtPositions : \A j \in AtPositions : j <= i

\* The text in front of the last '@'.
UserinfoText == SubSeq(ctx.input, AuthorityFirst, LastAt - 1)

\* The text between the last '@' and the end of the authority.
HostAndPortText == SubSeq(ctx.input, LastAt + 1, AuthorityLast - 1)

ColonsOf(text) == {i \in 1..Len(text) : text[i] = cColon}

FirstColon(text) == CHOOSE i \in ColonsOf(text) : \A j \in ColonsOf(text) : i <= j

UsernameText ==
  IF ColonsOf(UserinfoText) = {} THEN UserinfoText
  ELSE SubSeq(UserinfoText, 1, FirstColon(UserinfoText) - 1)

PasswordText ==
  IF ColonsOf(UserinfoText) = {} THEN EmptyStr
  ELSE SubSeq(UserinfoText, FirstColon(UserinfoText) + 1, Len(UserinfoText))

HostText ==
  IF ColonsOf(HostAndPortText) = {} THEN HostAndPortText
  ELSE SubSeq(HostAndPortText, 1, FirstColon(HostAndPortText) - 1)

RECURSIVE EncodeUserinfo(_)
\* Every byte of the text percent-encoded with the userinfo set, ':' as
\* "%3A" and '@' as "%40".
EncodeUserinfo(text) ==
  IF text = << >> THEN << >>
  ELSE (IF text[1] = cColon THEN S(<<"%", "3", "A">>)
        ELSE IF text[1] = cAt THEN S(<<"%", "4", "0">>)
        ELSE IF text[1] < 32 \/ text[1] > 126 \/ text[1] \in UserinfoSet
          THEN << cPercent, HexDigit(text[1] \div 16), HexDigit(text[1] % 16) >>
        ELSE << text[1] >>) \o EncodeUserinfo(Tail(text))

\* A parse without a base of an input with an authority that holds an '@'
\* has gone past the last '@'.
PastLastAt ==
  /\ mode = "parse"
  /\ AuthorityPrefixed
  /\ AtPositions # {}
  /\ ctx.it > LastAt

\* C22: Userinfo split.  Everything in front of the last '@' of the
\* authority is userinfo and only the text after the last '@' is read again
\* as the host: the first ':' of the userinfo separates username and
\* password and is not stored, every other byte is percent-encoded with the
\* userinfo set (a later ':' as "%3A", every '@' before the last as "%40");
\* 'http://a:b@c:d@h/' gets username 'a', password 'b%40c%3Ad', host 'h'.
\* The host state collects the text after the last '@' from its first
\* byte, and the host of a special URL is the host of that text.
UserinfoSplit ==
  PastLastAt
    => /\ ctx.url.username = EncodeUserinfo(UsernameText)
       /\ ctx.url.password = EncodeUserinfo(PasswordText)
       /\ ctx.state = "authority"
            => ctx.buffer = SubSeq(ctx.input, LastAt + 1, ctx.it - 1)
       /\ ctx.state = "host" /\ status = "running"
            => ctx.buffer = SubSeq(ctx.input, LastAt + 1, ctx.it - 1)
       /\ status = "success" /\ HostText # EmptyStr /\ InputIsSpecial
            => ctx.url.host = parse_host(HostText, FALSE)

\* The parse of 'http://a:b@c:d@h/' has returned.
UserinfoSplitWitness ==
  /\ PastLastAt
  /\ status = "success"
  /\ ctx.input = S(<<"h","t","t","p",":","/","/","a",":","b","@","c",":","d","@","h","/">>)
  /\ ctx.url.username = S(<<"a">>)
  /\ ctx.url.password = S(<<"b","%","4","0","c","%","3","A","d">>)
  /\ ctx.url.host = Some(S(<<"h">>))

\* The authority state is at EOF, '/', '?' or '#', or at '\' in a special
\* URL.
AtAuthorityEnd ==
  /\ Running({"authority"})
  /\ \/ ctx.it > Len(ctx.input)
     \/ ctx.input[ctx.it] \in {cSlash, cQuestion, cHash}
     \/ (ctx.url.scheme \in SpecialSchemes
           /\ ctx.input[ctx.it] = cBackslash)

\* C23: Credentials without host fail.  When the authority state reaches
\* EOF, '/', '?', '#' (or '\' in a special URL) after at least one '@' with
\* an empty buffer, the parse fails ('http://user@/'); otherwise the
\* position is the first byte of the buffered host text when the loop goes
\* on, the buffer is empty and the state is host.
CredentialsNeedHost ==
  /\ AtAuthorityEnd
       => LET r == parse_funcs(ctx)
          IN  IF ctx.at_flag /\ ctx.buffer = EmptyStr
                THEN r.action = "fail"
                ELSE /\ r.action = "increment"
                     /\ r.ctx.state = "host"
                     /\ r.ctx.buffer = EmptyStr
                     /\ r.ctx.it + 1 = ctx.it - Len(ctx.buffer)
                     /\ SubSeq(ctx.input, r.ctx.it + 1, ctx.it - 1) = ctx.buffer
                     /\ r.ctx.url = ctx.url
  /\ mode = "parse" /\ AuthorityPrefixed /\ AtPositions # {}
       /\ LastAt + 1 = AuthorityLast /\ ctx.it > LastAt
       => /\ ctx.state = "authority"
          /\ ctx.it = AuthorityLast
          /\ Done => status = "fail"

\* The parse of 'http://user@/' has failed in the authority state at '/'.
CredentialsNeedHostWitness ==
  /\ mode = "parse"
  /\ ctx.input = S(<<"h","t","t","p",":","/","/","u","s","e","r","@","/">>)
  /\ status = "fail"
  /\ ctx.state = "authority"
  /\ ctx.at_flag
  /\ ctx.buffer = EmptyStr
  /\ ctx.it = 13

\* The path start state of a URL whose scheme is not special is at '/'.
NonSpecialPathStartAtSlash ==
  /\ Running({"path_start"})
  /\ ctx.url.scheme \notin SpecialSchemes
  /\ ctx.it <= Len(ctx.input)
  /\ ctx.input[ctx.it] = cSlash

\* C24: No leading empty segment for non-special URLs.  In the path start
\* state of a URL whose scheme is not special a '/' only switches to the
\* path state: the position is not decremented and nothing is appended to
\* the path, so the parse of 'foo://h/p' returns the path [p] and not
\* ['', p].
NoLeadingEmptySegment ==
  /\ NonSpecialPathStartAtSlash
       => LET r == parse_funcs(ctx)
          IN  /\ r.action = "increment"
              /\ r.ctx.state = "path"
              /\ r.ctx.it = ctx.it
              /\ r.ctx.url.path = ctx.url.path
  /\ mode = "parse" /\ status = "success"
       /\ ctx.input = S(<<"f","o","o",":","/","/","h","/","p">>)
       => ctx.url.path = << S(<<"p">>) >>

\* The host state of a special URL is about to parse a buffer that is not
\* bracketed and decodes to a domain without forbidden bytes, one of whose
\* dot-separated parts holds a byte that is not a digit of the part's
\* radix.
NonDigitHostStep ==
  /\ InHostState
  /\ (Cur(ctx) = cColon /\ ~ctx.square_braces_flag) \/ AuthorityEnd(ctx)
  /\ ctx.url.scheme \in SpecialSchemes
  /\ ctx.buffer # EmptyStr
  /\ ctx.buffer[1] # cLBracket
  /\ \A i \in 1..Len(HostDomain) : ~is_forbidden_host_point(HostDomain[i])
  /\ \E k \in 1..Len(SplitDots(HostDomain, << << >> >>)) :
       LET part == SplitDots(HostDomain, << << >> >>)[k]
       IN  part # << >> /\ ~IsNumericPart(part)

\* C25: A part with a non-digit is not IPv4.  If a dot-separated part of
\* the host of a special URL holds a byte that is not a digit of its radix
\* ('1a', '018', '0x1g', '+1'), the host is not converted: it is the
\* lowercased domain string, unchanged.
NonDigitPartIsDomain ==
  NonDigitHostStep
    => LET r == parse_funcs(ctx)
       IN  /\ r.action # "fail"
           /\ r.ctx.url.host = Some(HostDomain)

\* The path state of a file URL with an empty path is at the end of a
\* segment that is not a dot segment and not two bytes long.
FileFirstSegmentEnd ==
  /\ Running({"path"})
  /\ ctx.url.scheme = FileScheme
  /\ ctx.url.path = << >>
  /\ \/ ctx.it > Len(ctx.input)
     \/ ctx.input[ctx.it] \in {cSlash, cBackslash}
     \/ (~Has(ctx.state_override) /\ ctx.input[ctx.it] \in {cQuestion, cHash})
  /\ ~is_single_dot_path_segment(ctx.buffer)
  /\ ~is_double_dot_path_segment(ctx.buffer)
  /\ Len(ctx.buffer) # 2

\* C26: Drive letter means exactly two characters.  In the path state of a
\* file URL with an empty path the buffer is treated as a Windows drive
\* letter only if it is exactly two characters long: a buffer such as
\* 'C|abc' is pushed unchanged, and the host is left as it is.
DriveLetterExactlyTwo ==
  /\ FileFirstSegmentEnd
       => LET r == parse_funcs(ctx)
          IN  /\ r.ctx.url.path = << ctx.buffer >>
              /\ r.ctx.url.host = ctx.url.host
  /\ mode = "parse" /\ status = "success"
       /\ ctx.input = S(<<"f","i","l","e",":","/","/","/","C","|","a","b","c">>)
       => ctx.url.path = << S(<<"C","|","a","b","c">>) >>

\* The segment is '..', '.%2e', '%2e.' or '%2e%2e' in any letter case.
IsDoubleDot(segment) ==
  \/ segment = S(<<".", ".">>)
  \/ /\ Len(segment) = 4
     /\ \/ segment[1] = cDot /\ SubSeq(ToLowerStr(segment), 2, 4) = S(<<"%","2","e">>)
        \/ segment[4] = cDot /\ SubSeq(ToLowerStr(segment), 1, 3) = S(<<"%","2","e">>)
  \/ ToLowerStr(segment) = S(<<"%","2","e","%","2","e">>)

\* A Windows drive letter: a letter and ':' or '|', and nothing else.
IsDriveLetter(segment) ==
  /\ Len(segment) = 2
  /\ isalpha(segment[1])
  /\ segment[2] \in {cColon, cPipe}

\* The path state is at the end of a double-dot segment.
DoubleDotSegmentEnd ==
  /\ Running({"path"})
  /\ IsDoubleDot(ctx.buffer)
  /\ \/ ctx.it > Len(ctx.input)
     \/ ctx.input[ctx.it] = cSlash
     \/ (ctx.url.scheme \in SpecialSchemes /\ ctx.input[ctx.it] = cBackslash)
     \/ (~Has(ctx.state_override) /\ ctx.input[ctx.it] \in {cQuestion, cHash})

\* The double-dot segment is ended by '/', or by '\' in a special URL.
DoubleDotBeforeSlash ==
  /\ ctx.it <= Len(ctx.input)
  /\ \/ ctx.input[ctx.it] = cSlash
     \/ (ctx.url.scheme \in SpecialSchemes /\ ctx.input[ctx.it] = cBackslash)

\* The path a double-dot segment leaves: an empty path and the single
\* drive letter of a file URL stay, any other path loses its last segment.
Shortened(scheme, path) ==
  IF path = << >> THEN path
  ELSE IF scheme = FileScheme /\ Len(path) = 1 /\ IsDriveLetter(path[1]) THEN path
  ELSE SubSeq(path, 1, Len(path) - 1)

\* C27: shorten_path is safe at the root.  A double-dot segment ('..',
\* '.%2e', '%2e.', '%2e%2e' in any case) leaves an empty path empty, leaves
\* the path of a file URL that is exactly one Windows drive letter, and
\* otherwise removes exactly the last segment (an empty segment follows when
\* the double-dot segment is the last one); it never makes the parse fail
\* and never removes the drive letter of a file URL; 'http://h/../../a' has
\* the path [a].
ShortenPathAtRoot ==
  /\ DoubleDotSegmentEnd
       => LET r == parse_funcs(ctx)
              left == Shortened(ctx.url.scheme, ctx.url.path)
          IN  /\ r.action # "fail"
              /\ DoubleDotBeforeSlash => r.ctx.url.path = left
              /\ ~DoubleDotBeforeSlash /\ ctx.url.scheme # FileScheme
                   => r.ctx.url.path = Append(left, EmptyStr)
              /\ ~DoubleDotBeforeSlash /\ ctx.url.scheme = FileScheme
                   => r.ctx.url.path = PopLeadingEmpty(Append(left, EmptyStr))
              /\ ctx.url.scheme = FileScheme /\ ctx.url.path # << >>
                   /\ IsDriveLetter(ctx.url.path[1])
                   => r.ctx.url.path # << >> /\ r.ctx.url.path[1] = ctx.url.path[1]
  /\ mode = "parse" /\ Done
       /\ ctx.input = S(<<"h","t","t","p",":","/","/","h","/",".",".","/",".",".","/","a">>)
       => status = "success" /\ ctx.url.path = << S(<<"a">>) >>

\* NUL, HT, LF, CR, SP, '#', '%', '/', ':', '?', '@', '[', '\', ']'.
ForbiddenInDomain == {0, 9, 10, 13, 32, 35, 37, 47, 58, 63, 64, 91, 92, 93}

\* The host state of a special URL is about to parse a buffer that is not a
\* bracketed literal.
DomainHostStep ==
  /\ InHostState
  /\ (Cur(ctx) = cColon /\ ~ctx.square_braces_flag) \/ AuthorityEnd(ctx)
  /\ ctx.url.scheme \in SpecialSchemes
  /\ ctx.buffer # EmptyStr
  /\ ctx.buffer[1] # cLBracket

\* The record has a special scheme and a host that is not a bracketed
\* literal.
HasDomainHost(url) ==
  /\ url.scheme \in SpecialSchemes
  /\ Has(url.host)
  /\ Val(url.host) # EmptyStr
  /\ Val(url.host)[1] # cLBracket

\* C28: Special domain hosts are decoded, lowercased and checked.  The host
\* of a special URL that is not a bracketed literal is percent-decoded and
\* lowercased, and the parse fails if the decoded text holds NUL, HT, LF,
\* CR, SP, '#', '%', '/', ':', '?', '@', '[', '\' or ']' ('%2F' in the host
\* fails); the domain host of a successful record holds no uppercase letter
\* and none of those bytes.
DomainHostChecked ==
  /\ DomainHostStep
       => LET r == parse_funcs(ctx)
              domain == ToLowerStr(pct_decode(ctx.buffer))
          IN  IF \E i \in 1..Len(domain) : domain[i] \in ForbiddenInDomain
                THEN r.action = "fail"
                ELSE \/ r.action = "fail" /\ Has(Ipv4Numbers(domain))
                     \/ r.action # "fail" /\ r.ctx.url.host = Some(domain)
                     \/ r.action # "fail" /\ Has(Ipv4Numbers(domain))
                          /\ Has(r.ctx.url.host)
                          /\ IsDottedQuad(Val(r.ctx.url.host),
                                          Ipv4Fold(Val(Ipv4Numbers(domain))))
  /\ status = "success" /\ HasDomainHost(ctx.url)
       => \A i \in 1..Len(Val(ctx.url.host)) :
            /\ ~(Val(ctx.url.host)[i] \in 65..90)
            /\ Val(ctx.url.host)[i] \notin ForbiddenInDomain

\* The parse of 'http://%41b/' has returned the host 'ab'.
DomainHostCheckedWitness ==
  /\ mode = "parse"
  /\ status = "success"
  /\ ctx.input = S(<<"h","t","t","p",":","/","/","%","4","1","b","/">>)
  /\ ctx.url.host = Some(S(<<"a","b">>))

\* The host state is about to parse a bracketed buffer whose text between
\* the brackets is made of hex digits and ':'.
Ipv6HostStep ==
  /\ InHostState
  /\ (Cur(ctx) = cColon /\ ~ctx.square_braces_flag) \/ AuthorityEnd(ctx)
  /\ Len(ctx.buffer) >= 2
  /\ ctx.buffer[1] = cLBracket
  /\ ctx.buffer[Len(ctx.buffer)] = cRBracket
  /\ \A i \in 2..(Len(ctx.buffer) - 1) :
       isxdigit(ctx.buffer[i]) \/ ctx.buffer[i] = cColon

\* The text between the brackets.
Ipv6HostText == SubSeq(ctx.buffer, 2, Len(ctx.buffer) - 1)

RECURSIVE SplitColons(_, _)
\* The parts of the text between ':' bytes.
SplitColons(text, parts) ==
  IF text = << >> THEN parts
  ELSE IF text[1] = cColon THEN SplitColons(Tail(text), Append(parts, << >>))
  ELSE SplitColons(Tail(text), [parts EXCEPT ![Len(parts)] = Append(@, text[1])])

\* The pieces written in the text, in order.
WrittenPieces(text) ==
  LET parts == SplitColons(text, << << >> >>)
      RECURSIVE NonEmpty(_)
      NonEmpty(k) ==
        IF k > Len(parts) THEN << >>
        ELSE (IF parts[k] = << >> THEN << >> ELSE << parts[k] >>) \o NonEmpty(k + 1)
  IN  NonEmpty(1)

\* The positions of the text at which "::" starts.
Compressions(text) ==
  {i \in 1..(Len(text) - 1) : text[i] = cColon /\ text[i + 1] = cColon}

\* More than eight pieces: with a compression, which stands for a piece,
\* more than seven written pieces.
TooManyPieces(text) ==
  Len(WrittenPieces(text)) > (IF Compressions(text) = {} THEN 8 ELSE 7)

SecondCompression(text) == Cardinality(Compressions(text)) >= 2

SingleColonFirst(text) ==
  text # << >> /\ text[1] = cColon /\ 1 \notin Compressions(text)

ColonSeparatorLast(text) ==
  /\ text # << >>
  /\ text[Len(text)] = cColon
  /\ (Len(text) - 1) \notin Compressions(text)

LongPiece(text) ==
  \E k \in 1..Len(WrittenPieces(text)) : Len(WrittenPieces(text)[k]) > 4

TooFewPieces(text) ==
  Compressions(text) = {} /\ Len(WrittenPieces(text)) < 8

Ipv6Malformed(text) ==
  \/ TooManyPieces(text)
  \/ SecondCompression(text)
  \/ SingleColonFirst(text)
  \/ ColonSeparatorLast(text)
  \/ LongPiece(text)
  \/ TooFewPieces(text)

\* C29: IPv6 piece-count rules.  parse_ipv6_address returns no address, and
\* the parse fails, when the text has more than eight pieces, a second
\* '::', a single ':' at its start, a ':' separator as its last character,
\* a piece of more than four hex digits, or no '::' and fewer than eight
\* pieces.
Ipv6PieceCount ==
  (Ipv6HostStep /\ Ipv6Malformed(Ipv6HostText))
    => /\ parse_ipv6_address(Ipv6HostText) = None
       /\ parse_funcs(ctx).action = "fail"

\* The parse of 'http://[1:2:3:4:5:6:7]' has failed in the host state.
Ipv6PieceCountWitness ==
  /\ status = "fail"
  /\ mode = "parse"
  /\ ctx.state = "host"
  /\ ctx.buffer = S(<<"[">>) \o Ipv6Run(1, 7) \o S(<<"]">>)
  /\ TooFewPieces(Ipv6Run(1, 7))
  /\ ctx.input = S(<<"h","t","t","p",":","/","/">>) \o ctx.buffer

RECURSIVE HexValue(_)
HexValue(piece) ==
  IF piece = << >> THEN 0
  ELSE 16 * HexValue(SubSeq(piece, 1, Len(piece) - 1))
         + hex_to_dec(piece[Len(piece)])

\* The text has one '::' and is not malformed.
Ipv6Compressed(text) ==
  Cardinality(Compressions(text)) = 1 /\ ~Ipv6Malformed(text)

\* The standard expansion of the '::' notation: the pieces before '::' from
\* index 0 on, the k pieces after it at 8-k..7, zero elsewhere.
Ipv6Expansion(text) ==
  LET at == CHOOSE i \in Compressions(text) : TRUE
      before == WrittenPieces(SubSeq(text, 1, at - 1))
      after == WrittenPieces(SubSeq(text, at + 2, Len(text)))
      k == Len(after)
  IN  [i \in 0..7 |->
         IF i < Len(before) THEN HexValue(before[i + 1])
         ELSE IF i >= 8 - k THEN HexValue(after[i - (8 - k) + 1])
         ELSE 0]

\* C30: IPv6 '::' expansion.  With a compression the pieces written before
\* '::' keep their indices, the k pieces written after it end up in
\* address[8-k..7] in the same order and every other piece is zero: '1::2:3'
\* is 1:0:0:0:0:0:2:3 and '::1' is 0:0:0:0:0:0:0:1.
Ipv6Expanded ==
  /\ (Ipv6HostStep /\ Ipv6Compressed(Ipv6HostText))
       => /\ parse_ipv6_address(Ipv6HostText) = Some(Ipv6Expansion(Ipv6HostText))
          /\ parse_funcs(ctx).action # "fail"
  /\ (Ipv6HostStep /\ Ipv6HostText = S(<<"1",":",":","2",":","3">>))
       => parse_ipv6_address(Ipv6HostText)
            = Some([i \in 0..7 |-> IF i = 0 THEN 1 ELSE IF i = 6 THEN 2
                                   ELSE IF i = 7 THEN 3 ELSE 0])
  /\ (Ipv6HostStep /\ Ipv6HostText = S(<<":",":","1">>))
       => parse_ipv6_address(Ipv6HostText)
            = Some([i \in 0..7 |-> IF i = 7 THEN 1 ELSE 0])

\* The parse of 'http://[1:2::3:4:5]' has returned.
Ipv6ExpandedWitness ==
  /\ status = "success"
  /\ mode = "parse"
  /\ ctx.input = S(<<"h","t","t","p",":","/","/","[","1",":","2",":",":","3",":","4",":","5","]">>)
  /\ parse_ipv6_address(S(<<"1",":","2",":",":","3",":","4",":","5">>))
       = Some(Ipv6Expansion(S(<<"1",":","2",":",":","3",":","4",":","5">>)))
  /\ Has(ctx.url.host)

\* The position of the first '.' of the text.
FirstDot(text) ==
  CHOOSE i \in 1..Len(text) :
    text[i] = cDot /\ \A j \in 1..(i - 1) : text[j] # cDot

\* The position of the first byte of the piece that is followed by '.'.
DottedPieceStart(text) ==
  CHOOSE i \in 1..FirstDot(text) :
    /\ i > 1 => text[i - 1] = cColon
    /\ \A j \in i..FirstDot(text) : text[j] # cColon

\* The text in front of that piece, and the text from that piece on.
Ipv6Head(text) == SubSeq(text, 1, DottedPieceStart(text) - 1)

Ipv4Tail(text) == SubSeq(text, DottedPieceStart(text), Len(text))

\* piece_index when the piece that is followed by '.' is read.
EntryPieceIndex(text) ==
  Len(WrittenPieces(Ipv6Head(text)))
    + (IF Compressions(Ipv6Head(text)) = {} THEN 0 ELSE 1)

\* The host state is about to parse a bracketed buffer whose text has a
\* piece followed by '.', after well-formed pieces of hex digits.
Ipv6DottedHostStep ==
  /\ InHostState
  /\ (Cur(ctx) = cColon /\ ~ctx.square_braces_flag) \/ AuthorityEnd(ctx)
  /\ Len(ctx.buffer) >= 2
  /\ ctx.buffer[1] = cLBracket
  /\ ctx.buffer[Len(ctx.buffer)] = cRBracket
  /\ \E i \in 1..Len(Ipv6HostText) : Ipv6HostText[i] = cDot
  /\ \A i \in 1..Len(Ipv6Head(Ipv6HostText)) :
       isxdigit(Ipv6Head(Ipv6HostText)[i]) \/ Ipv6Head(Ipv6HostText)[i] = cColon
  /\ ~SecondCompression(Ipv6Head(Ipv6HostText))
  /\ ~SingleColonFirst(Ipv6Head(Ipv6HostText))
  /\ ~LongPiece(Ipv6Head(Ipv6HostText))

\* Exactly four dot-separated decimal groups, each in 0..255 and without a
\* leading zero on a group of several digits.
FourGroups(text) ==
  /\ Len(SplitDots(text, << << >> >>)) = 4
  /\ \A k \in 1..4 : IsCanonicalByte(SplitDots(text, << << >> >>)[k])

GroupValue(text, k) == DecimalValue(SplitDots(text, << << >> >>)[k])

\* C31: Embedded IPv4 in IPv6.  When a piece is followed by '.', it is read
\* again as decimal and only exactly four dot-separated decimal groups,
\* each in 0..255 and without a leading zero on a group of several digits,
\* starting at piece_index <= 6 and running to the end of the input are
\* accepted; groups 1-2 and 3-4 are packed into two consecutive pieces as
\* first * 256 + second; anything else fails.
Ipv6EmbeddedIpv4 ==
  Ipv6DottedHostStep
    => LET text == Ipv6HostText
           r == parse_ipv6_address(Ipv6HostText)
       IN  /\ (~FourGroups(Ipv4Tail(text)) \/ EntryPieceIndex(text) > 6)
                => r = None /\ parse_funcs(ctx).action = "fail"
           /\ Has(r)
                => /\ Val(r)[6] = GroupValue(Ipv4Tail(text), 1) * 256
                                    + GroupValue(Ipv4Tail(text), 2)
                   /\ Val(r)[7] = GroupValue(Ipv4Tail(text), 3) * 256
                                    + GroupValue(Ipv4Tail(text), 4)
           /\ (/\ FourGroups(Ipv4Tail(text))
               /\ EntryPieceIndex(text) <= 6
               /\ Compressions(Ipv6Head(text)) = {} => EntryPieceIndex(text) = 6)
                => Has(r) /\ parse_funcs(ctx).action # "fail"

\* The parse of 'http://[::ffff:255.255.255.255]' has returned.
Ipv6EmbeddedIpv4Witness ==
  /\ status = "success"
  /\ mode = "parse"
  /\ ctx.input = S(<<"h","t","t","p",":","/","/","[",":",":","f","f","f","f",":",
                     "2","5","5",".","2","5","5",".","2","5","5",".","2","5","5","]">>)
  /\ Has(ctx.url.host)
  /\ parse_ipv6_address(S(<<":",":","f","f","f","f",":",
                            "2","5","5",".","2","5","5",".","2","5","5",".","2","5","5">>))
       = Some([i \in 0..7 |-> IF i >= 5 THEN 65535 ELSE 0])

\* The host state is about to parse a bracketed buffer of hex digits and
\* ':' that starts with ':'.
Ipv6ColonFirstStep ==
  /\ Ipv6HostStep
  /\ Ipv6HostText # << >>
  /\ Ipv6HostText[1] = cColon

\* What C32 says in both its readings: a ':' at the start has to be
\* followed by ':', and both are consumed.
Ipv6LeadingCommon ==
  Ipv6ColonFirstStep
    => IF Len(Ipv6HostText) < 2 \/ Ipv6HostText[2] # cColon
         THEN /\ parse_ipv6_address(Ipv6HostText) = None
              /\ parse_funcs(ctx).action = "fail"
         ELSE /\ Ipv6Start(Ipv6HostText).pc = "run"
              /\ Ipv6Start(Ipv6HostText).it = 3
              /\ Ipv6Start(Ipv6HostText).address = [i \in 0..7 |-> 0]

\* C32 as stated: after a leading '::' the compression is recorded at
\* index 0 and piece_index is still 0 when the first piece after it is read.
Ipv6LeadingCompressionOriginal ==
  /\ Ipv6LeadingCommon
  /\ (Ipv6ColonFirstStep /\ 1 \in Compressions(Ipv6HostText))
       => /\ Ipv6Start(Ipv6HostText).compress = Some(0)
          /\ Ipv6Start(Ipv6HostText).piece_index = 0

\* C32 as amended: after a leading '::' the compression is recorded at
\* index 1 and piece_index is 1 when the first piece after it is read: the
\* piece is stored in address[1], and eight pieces after a leading '::'
\* fail.
Ipv6LeadingCompression ==
  /\ Ipv6LeadingCommon
  /\ (Ipv6ColonFirstStep /\ 1 \in Compressions(Ipv6HostText))
       => /\ Ipv6Start(Ipv6HostText).compress = Some(1)
          /\ Ipv6Start(Ipv6HostText).piece_index = 1
          /\ (WrittenPieces(Ipv6HostText) # << >> /\ ~Ipv6Malformed(Ipv6HostText))
               => LET st == Ipv6Iteration(Ipv6HostText, Ipv6Start(Ipv6HostText))
                  IN  /\ st.piece_index = 2
                      /\ st.address[1] = HexValue(WrittenPieces(Ipv6HostText)[1])
                      /\ st.address[0] = 0
          /\ Len(WrittenPieces(Ipv6HostText)) >= 8
               => parse_ipv6_address(Ipv6HostText) = None

\* The parse of 'http://[::1:2]' has returned.
Ipv6LeadingCompressionWitness ==
  /\ status = "success"
  /\ mode = "parse"
  /\ ctx.input = S(<<"h","t","t","p",":","/","/","[",":",":","1",":","2","]">>)
  /\ Ipv6Start(S(<<":",":","1",":","2">>)).piece_index = 1
  /\ parse_ipv6_address(S(<<":",":","1",":","2">>))
       = Some([i \in 0..7 |-> IF i = 6 THEN 1 ELSE IF i = 7 THEN 2 ELSE 0])

\* A byte of 0x21..0x7E.
IsVisible(c) == c \in 33..126

\* '"', '#', '<', '>'.
QueryEscaped == {34, 35, 60, 62}

\* '"', '<', '>', '`'.
FragmentEscaped == {34, 60, 62, 96}

\* '"', '<', '>', '`', '#', '?', '{', '}'.
PathEscaped == {34, 60, 62, 96, 35, 63, 123, 125}

\* The digits of "%XX" with uppercase hex.
UpperHex(n) == IF n < 10 THEN 48 + n ELSE 55 + n

\* The byte as a component with the given escaped bytes holds it.
Escaped(c, escaped) ==
  IF IsVisible(c) /\ c \notin escaped THEN << c >>
  ELSE << 37, UpperHex(c \div 16), UpperHex(c % 16) >>

\* A parse without a base and without a state override has succeeded.
ParsedWithoutBase ==
  /\ status = "success"
  /\ mode \in {"parse", "reparse"}
  /\ NoOverride
  /\ ~Has(ctx.base)

\* C33: Output alphabets.  After a successful parse with no base every
\* byte of the query lies in 0x21..0x7E and is none of '"', '#', '<', '>';
\* every byte of the fragment lies in 0x21..0x7E and is none of '"', '<',
\* '>', '`'; every path segment of a URL that is not cannot-be-a-base holds
\* no '/', no byte outside 0x21..0x7E and none of '"', '<', '>', '`', '#',
\* '?', '{', '}'; such input bytes appear only as "%XX" with uppercase hex.
OutputAlphabets ==
  /\ ParsedWithoutBase
       => /\ Has(ctx.url.query)
               => \A i \in 1..Len(Val(ctx.url.query)) :
                    /\ IsVisible(Val(ctx.url.query)[i])
                    /\ Val(ctx.url.query)[i] \notin QueryEscaped
          /\ Has(ctx.url.fragment)
               => \A i \in 1..Len(Val(ctx.url.fragment)) :
                    /\ IsVisible(Val(ctx.url.fragment)[i])
                    /\ Val(ctx.url.fragment)[i] \notin FragmentEscaped
          /\ ~ctx.url.cannot_be_a_base_url
               => \A k \in 1..Len(ctx.url.path) :
                    \A i \in 1..Len(ctx.url.path[k]) :
                      /\ IsVisible(ctx.url.path[k][i])
                      /\ ctx.url.path[k][i] # cSlash
                      /\ ctx.url.path[k][i] \notin PathEscaped
  /\ \A c \in EscapeBytes :
       (/\ ParsedWithoutBase
        /\ mode = "parse"
        /\ ctx.input = EscapeInput(S(<<"f","o","o",":","/">>), c))
         => /\ ctx.url.path = << << cLowerA >> \o Escaped(c, PathEscaped) \o S(<<"b">>),
                                 S(<<"c">>) >>
            /\ ctx.url.query = Some(S(<<"d">>) \o Escaped(c, QueryEscaped) \o S(<<"e">>))
            /\ ctx.url.fragment
                 = Some(S(<<"f">>) \o Escaped(c, FragmentEscaped) \o S(<<"g">>))

\* The parse of 'foo:/a`b/c?d`e#f`g' has returned: '`' is escaped in the
\* path and in the fragment and kept in the query.
OutputAlphabetsWitness ==
  /\ ParsedWithoutBase
  /\ ctx.input = EscapeInput(S(<<"f","o","o",":","/">>), 96)
  /\ ctx.url.path = << S(<<"a","%","6","0","b">>), S(<<"c">>) >>
  /\ ctx.url.query = Some(<< 100, 96, 101 >>)
  /\ ctx.url.fragment = Some(S(<<"f","%","6","0","g">>))

\* NUL, 0x1B, 0x04, 0x12, 0x1F and the white space of the C locale.
StrippedBytes == {0, 27, 4, 18, 31} \cup {32, 9, 10, 11, 12, 13}

\* The positions of the bytes of the text that are not stripped at its
\* ends.
KeptPositions(text) == {i \in 1..Len(text) : text[i] \notin StrippedBytes}

\* The text between its first and its last byte that is not stripped,
\* without '\t', '\r' and '\n'.
Sanitised(text) ==
  IF KeptPositions(text) = {} THEN << >>
  ELSE LET first == CHOOSE i \in KeptPositions(text) :
                      \A j \in KeptPositions(text) : i <= j
           last == CHOOSE i \in KeptPositions(text) :
                     \A j \in KeptPositions(text) : j <= i
       IN  SelectSeq(SubSeq(text, first, last), LAMBDA c : c \notin {9, 10, 13})

\* C34: Input sanitisation.  Before the first state runs the working input
\* has no leading or trailing byte of NUL, 0x1B, 0x04, 0x12, 0x1F or white
\* space, holds no '\t', '\r' or '\n' and keeps all other bytes in their
\* order; validation_error is set exactly when a byte was removed;
\* sanitising a sanitised input changes nothing.
InputSanitised ==
  calls = 0
    => /\ ctx.input # << >>
            => /\ ctx.input[1] \notin StrippedBytes
               /\ ctx.input[Len(ctx.input)] \notin StrippedBytes
       /\ \A i \in 1..Len(ctx.input) : ctx.input[i] \notin {9, 10, 13}
       /\ ctx.input = Sanitised(ctx.given)
       /\ ctx.validation_error <=> Len(ctx.input) < Len(ctx.given)
       /\ NewContext(ctx.input, ctx.base, None, ctx.state_override).input = ctx.input
       /\ ~NewContext(ctx.input, ctx.base, None, ctx.state_override).validation_error

\* The context of a parse has been constructed from an input that loses
\* bytes at both ends and in the middle.
InputSanitisedWitness ==
  /\ calls = 0
  /\ mode = "parse"
  /\ ctx.given = << cSpace, HT >> \o S(<<"h","t","t","p",":","/","/","h","/">>)
                   \o << cSpace, cLowerA, LF, cLowerA, CR, cSpace, 31, cSpace >>
  /\ ctx.input = S(<<"h","t","t","p",":","/","/","h","/"," ","a","a">>)
  /\ ctx.validation_error

\* The state and the position the handler of turn i handed over to.
TargetOf(i) ==
  IF i < Len(turns) THEN << turns[i + 1].state, turns[i + 1].it >>
  ELSE << ctx.state, ctx.it >>

ContinueTurns == {i \in 1..Len(turns) : turns[i].action = "continue"}

\* C35: The 'continue' action cannot loop.  A handler returns continue only
\* with a change to a different state (scheme_start or scheme to no_scheme,
\* no_scheme to relative or file) and the position back at the start; no
\* (state, position) pair is the target of continue twice, and no more
\* than two continue actions follow each other.  When a handler has just
\* returned continue, the turns hold every continue of the parse so far.
ContinueCannotLoop ==
  Len(turns) > 0 /\ turns[Len(turns)].action = "continue"
    => /\ \A i \in ContinueTurns :
            /\ TargetOf(i)[1] # turns[i].state
            /\ \/ turns[i].state \in {"scheme_start", "scheme"}
                    /\ TargetOf(i)[1] = "no_scheme"
               \/ turns[i].state = "no_scheme"
                    /\ TargetOf(i)[1] \in {"relative", "file"}
            /\ TargetOf(i)[2] = 1
       /\ \A i, j \in ContinueTurns : TargetOf(i) = TargetOf(j) => i = j
       /\ \A i \in ContinueTurns :
            ~({i + 1, i + 2} \subseteq ContinueTurns)

\* A parse against a base where the scheme state gave up past the start of
\* the input and the no_scheme state continued after it.
ContinueCannotLoopWitness ==
  /\ status = "success"
  /\ \E i \in ContinueTurns :
       /\ turns[i].state = "scheme"
       /\ turns[i].it > 1
       /\ i + 1 \in ContinueTurns

\* C36: End of input is not a NUL byte.  In the fragment state
\* validation_error is raised only for a NUL byte of the input: the call of
\* the handler at the end of the input neither sets validation_error nor
\* appends to the fragment, and an input without anomalies that has a
\* fragment finishes with validation_error = FALSE.
EofIsNotNul ==
  /\ Running({"fragment"}) /\ is_eof(ctx)
       => /\ parse_fragment(ctx).ctx.validation_error = ctx.validation_error
          /\ parse_fragment(ctx).ctx.url.fragment = ctx.url.fragment
  /\ status = "success" /\ mode = "parse" /\ ctx.given \in CleanFragmentInputs
       => /\ Has(ctx.url.fragment)
          /\ ~ctx.validation_error

\* A setter's parse is in the scheme state at a ':'.
OverrideAtColon ==
  /\ mode = "override"
  /\ ctx.state = "scheme"
  /\ Cur(ctx) = cColon
  /\ ~is_eof(ctx)

\* The scheme read so far conflicts with the record the setter supplied.
SchemeConflict(record, scheme) ==
  \/ (record.scheme \in SpecialSchemes) # (scheme \in SpecialSchemes)
  \/ /\ scheme = FileScheme
     /\ \/ record.username # EmptyStr
        \/ record.password # EmptyStr
        \/ Has(record.port)
  \/ /\ record.scheme = FileScheme
     /\ (~Has(record.host) \/ Val(record.host) = EmptyStr)

\* C37: Scheme conflicts in override mode fail fast.  With a state override
\* the parse fails at the ':' of the scheme state and the supplied record
\* keeps its scheme if the record is special and the new scheme is not (or
\* the reverse), if the new scheme is 'file' and the record has credentials
\* or a port, or if the record's scheme is 'file' and its host is absent or
\* empty.
SchemeConflictFails ==
  /\ OverrideAtColon /\ status = "running"
       /\ SchemeConflict(Val(prev), ctx.buffer)
       => /\ parse_scheme(ctx).action = "fail"
          /\ parse_scheme(ctx).ctx.url.scheme = Val(prev).scheme
  /\ OverrideAtColon /\ status # "running"
       /\ SchemeConflict(Val(prev), ctx.buffer)
       => /\ status = "fail"
          /\ ctx.url = Val(prev)
  /\ mode = "override" /\ ctx.state = "scheme" => ctx.url = Val(prev)

\* A setter's parse of 'file:' has failed on a special record with
\* credentials and a port.
SchemeConflictFailsWitness ==
  /\ OverrideAtColon
  /\ status = "fail"
  /\ ctx.buffer = FileScheme
  /\ Val(prev).scheme = S(<<"h","t","t","p">>)
  /\ Val(prev).username # EmptyStr
  /\ Has(Val(prev).port)

\* The host handler is about to hand the text between '[' and ']' to
\* parse_ipv6_address, whatever the text is.
Ipv6AnyHostStep ==
  /\ InHostState
  /\ (Cur(ctx) = cColon /\ ~ctx.square_braces_flag) \/ AuthorityEnd(ctx)
  /\ Len(ctx.buffer) >= 2
  /\ ctx.buffer[1] = cLBracket
  /\ ctx.buffer[Len(ctx.buffer)] = cRBracket

\* The locals of parse_ipv6_address(text) when its main loop is left.
Ipv6AfterLoop(text) == Ipv6Loop(text, Ipv6Start(text))

\* C38: The IPv6 piece array stays in bounds.  In parse_ipv6_address every
\* read or write of address[i] (the piece stores, the stores of the
\* embedded IPv4 address and both operands of the swap of the compression)
\* has i in 0..7, and piece_index, which the main loop only increments,
\* does not exceed 8.
Ipv6IndicesInBounds ==
  Ipv6AnyHostStep
    => /\ Ipv6AfterLoop(Ipv6HostText).indices \subseteq 0..7
       /\ Ipv6AfterLoop(Ipv6HostText).piece_index \in 0..8
       /\ Ipv6AfterLoop(Ipv6HostText).pc # "fail"
            /\ Has(Ipv6AfterLoop(Ipv6HostText).compress)
            => Ipv6SwapIndices(7,
                   Ipv6AfterLoop(Ipv6HostText).piece_index
                     - Val(Ipv6AfterLoop(Ipv6HostText).compress),
                   Val(Ipv6AfterLoop(Ipv6HostText).compress)) \subseteq 0..7

\* The host handler is about to parse an address with a compression whose
\* embedded IPv4 address has filled the last two pieces, and the swap
\* moves pieces.
Ipv6IndicesInBoundsWitness ==
  /\ Ipv6AnyHostStep
  /\ Ipv6AfterLoop(Ipv6HostText).pc = "break"
  /\ Ipv6AfterLoop(Ipv6HostText).numbers_seen = 4
  /\ Has(Ipv6AfterLoop(Ipv6HostText).compress)
  /\ Ipv6AfterLoop(Ipv6HostText).piece_index \in 3..7
  /\ 7 \in Ipv6SwapIndices(7,
             Ipv6AfterLoop(Ipv6HostText).piece_index
               - Val(Ipv6AfterLoop(Ipv6HostText).compress),
             Val(Ipv6AfterLoop(Ipv6HostText).compress))

\* C39: No access to an absent optional.  In a parse without a state
\* override the base is present whenever the relative or the relative_slash
\* handler runs, url.query whenever the query handler runs, url.fragment
\* whenever the fragment handler runs, and url.path has a first element
\* whenever the cannot_be_a_base_url_path handler runs.
OptionalsPresent ==
  status = "running" /\ ~Has(ctx.state_override)
    => /\ ctx.state \in {"relative", "relative_slash"} => Has(ctx.base)
       /\ ctx.state = "query" => Has(ctx.url.query)
       /\ ctx.state = "fragment" => Has(ctx.url.fragment)
       /\ ctx.state = "cannot_be_a_base_url_path" => Len(ctx.url.path) >= 1

\* A parse against a base is about to run the fragment handler after the
\* relative, the relative_slash and the query handlers have run.
OptionalsPresentWitness ==
  /\ Running({"fragment"})
  /\ mode = "relative"
  /\ \E i, j, k \in 1..Len(turns) :
       /\ turns[i].state = "relative"
       /\ turns[j].state = "relative_slash"
       /\ turns[k].state = "query"

\* The state of the handler of turn i; after the last turn, the state the
\* parse is in now.
StateAt(i) == IF i <= Len(turns) THEN turns[i].state ELSE ctx.state

\* The turns whose state is in the set.
TurnsIn(states) == {i \in 1..(Len(turns) + 1) : StateAt(i) \in states}

\* The turns of the states of the set follow each other: once such a state
\* was left, it is not entered again.
NeverBack(left) ==
  \A i, k \in TurnsIn(left) : \A j \in i..k : StateAt(j) \in left

\* After a turn in a state of the set 'entered' every turn is in a state
\* of the set 'allowed'.
OnlyAfter(entered, allowed) ==
  \A i \in TurnsIn(entered) :
    \A j \in (i + 1)..(Len(turns) + 1) : StateAt(j) \in allowed

AuthorityStates ==
  {"special_relative_or_authority", "path_or_authority",
   "special_authority_slashes", "special_authority_ignore_slashes",
   "authority", "host", "hostname", "port", "file_host"}

\* C40: States only move forward.  Without a state override the sequence
\* of states never returns to scheme_start or scheme after leaving them,
\* never returns to an authority, host or port state after path_start or
\* path was entered, only query or fragment follow query, and only
\* fragment follows fragment.  The turns of a parse that has returned hold
\* the whole sequence.
StatesMoveForward ==
  status # "running" /\ ~Has(ctx.state_override)
    => /\ NeverBack({"scheme_start"})
       /\ NeverBack({"scheme"})
       /\ \A i \in TurnsIn({"scheme"}), j \in TurnsIn({"scheme_start"}) : j < i
       /\ \A i \in TurnsIn({"path_start", "path"}), j \in TurnsIn(AuthorityStates) :
            j < i
       /\ OnlyAfter({"query"}, {"query", "fragment"})
       /\ OnlyAfter({"fragment"}, {"fragment"})

\* A parse has passed scheme, authority, host, port, path, query and
\* fragment states and has returned.
StatesMoveForwardWitness ==
  /\ status = "success"
  /\ ~Has(ctx.state_override)
  /\ \A s \in {"scheme_start", "scheme", "authority", "host", "port",
               "path_start", "path", "query", "fragment"} :
       TurnsIn({s}) # {}

=============================================================================
